---- MODULE Spec2Model ----
(***************************************************************************)
(* A model of the GP2 editor's trace replay engine (src/developer/tracing): *)
(* TraceRunner parses an XML tracefile lazily into TraceSteps, applies and  *)
(* reverts their graph changes on the host graph, keeps a context stack and *)
(* moves a highlight over the program's tokens.                             *)
(*                                                                         *)
(* Every operation of the runner is a function from the runner's state (a  *)
(* record of its fields) to its state after the call, written from the C++ *)
(* statement by statement; the actions at the end apply these functions to *)
(* the variables.  Text that the code splits or joins (labels) is a        *)
(* sequence of one-character strings.                                      *)
(***************************************************************************)
EXTENDS Integers, Sequences, FiniteSets, TLC

\* The number of top-level commands of the traced program (and so of
\* top-level elements of a complete tracefile).
MaxFrags == 2

\* The deepest token stack a call may leave behind: the runner pushes the
\* declaration of a procedure whenever the highlight is updated right after
\* the procedure's start and never pops it, so the stack has no bound of its own.
MaxTokenStack == 3

\* How far past the last token the index of a token reference may lie: the
\* highlighter moves the top reference one index on whenever the end of the
\* trace is reached, so the index has no bound of its own.
MaxPastEnd == 2

\* The longest run (in XML tokens after <trace>) whose tracefile is also cut
\* off by text that is not well-formed, when the two parsers are compared.
MaxShortTrace == 6

VARIABLES
    programTokens,   \* TraceRunner::_programTokens: the tokens' lexeme and text
    emphasise,       \* Token::emphasise of every program token
    xml,             \* the tracefile after <trace>, as QXmlStreamReader tokens
    rd,              \* TraceRunner::_xml: the reader's position and current token
    initialised,     \* TraceRunner::_initialised
    parseComplete,   \* TraceRunner::_parseComplete
    traceSteps,      \* TraceRunner::_traceSteps
    currentStep,     \* TraceRunner::_currentStep
    tokenStack,      \* TraceRunner::_tokenStack
    contextStack,    \* TraceRunner::_contextStack
    graph,           \* the host graph behind TraceRunner::_graph
    inputGraph,      \* the host graph as it was handed to the constructor
    ub,              \* the last call read outside a container or failed a Q_ASSERT
    aborted,         \* the process was aborted by a failed assertion
    ret,             \* what the last call returned
    lastOp,          \* the last call made on the runner
    roundTrip,       \* how far a goToEnd(); goToStart() made right after construction got
    parser           \* a TraceParser reading the same tracefile, and the steps it produced

vars == <<programTokens, emphasise, xml, rd, initialised, parseComplete, traceSteps,
          currentStep, tokenStack, contextStack, graph, inputGraph, ub, aborted,
          ret, lastOp, roundTrip, parser>>

-----------------------------------------------------------------------------
(* Text *)

RECURSIVE Split(_)
\* QString::split(":"): the parts between the separators, empty parts kept
Split(s) ==
    IF \E i \in 1..Len(s) : s[i] = ":"
    THEN LET i == CHOOSE k \in 1..Len(s) : s[k] = ":" /\ \A j \in 1..(k-1) : s[j] /= ":"
         IN  <<SubSeq(s, 1, i-1)>> \o Split(SubSeq(s, i+1, Len(s)))
    ELSE <<s>>

RECURSIVE ListToString(_)
\* the label text of a list of atoms: the atoms joined by ":"
ListToString(values) ==
    IF Len(values) = 0 THEN <<>>
    ELSE IF Len(values) = 1 THEN values[1]
    ELSE values[1] \o <<":">> \o ListToString(Tail(values))

\* QString::remove("Main_") on the names the model uses
RemoveMain(name) ==
    CASE name = "Main_r1" -> "r1"
      [] name = "Main_r2" -> "r2"
      [] name = "Main_r3" -> "r3"
      [] name = "Main_r4" -> "r4"
      [] name = "Main_r5" -> "r5"
      [] name = "Main_r6" -> "r6"
      [] name = "Main_r7" -> "r7"
      [] name = "Main_ra" -> "ra"
      [] name = "Main_rb" -> "rb"
      [] OTHER -> name

-----------------------------------------------------------------------------
(* The tracefile as the XML reader's tokens *)

NoAttrs == [name |-> "", success |-> "", id |-> "", label |-> <<>>, mark |-> <<>>,
            root |-> "", source |-> "", target |-> "", old |-> <<>>, new |-> <<>>]

StartElement(tag, attrs) == [tt |-> "StartElement", name |-> tag, a |-> attrs]
EndElement(tag) == [tt |-> "EndElement", name |-> tag, a |-> NoAttrs]
Characters == [tt |-> "Characters", name |-> "", a |-> NoAttrs]
EndDocument == [tt |-> "EndDocument", name |-> "", a |-> NoAttrs]
Invalid(error) == [tt |-> "Invalid", name |-> error, a |-> NoAttrs]

\* <tag attrs/>: a start and an end element
Empty(tag, attrs) == <<StartElement(tag, attrs), EndElement(tag)>>

\* the reader after readNextStartElement() returned the root element
ReaderAtRoot == [pos |-> 0, type |-> "StartElement", name |-> "trace", a |-> NoAttrs]

\* QXmlStreamReader::readNext(): the next token of the file; after an Invalid
\* token (always the last of a file) the reader stays Invalid
readNext(r) ==
    IF r.pos < Len(xml)
    THEN LET t == xml[r.pos + 1]
         IN  [pos |-> r.pos + 1, type |-> t.tt, name |-> t.name, a |-> t.a]
    ELSE r

\* QXmlStreamReader::error()
xmlError(r) == IF r.type = "Invalid" THEN r.name ELSE "NoError"

\* QXmlStreamReader::hasError()
hasError(r) == xmlError(r) /= "NoError"

\* QXmlStreamReader::atEnd(): the document was read to its end, or an error
\* has occurred and reading has been aborted
atEnd(r) == r.type = "EndDocument" \/ r.type = "Invalid"

-----------------------------------------------------------------------------
(* tracestep.cpp *)

stepTypeFromXML(elementName) ==
    CASE elementName = "rule"      -> "RULE"
      [] elementName = "match"     -> "RULE_MATCH"
      [] elementName = "apply"     -> "RULE_APPLICATION"
      [] elementName = "ruleset"   -> "RULE_SET"
      [] elementName = "loop"      -> "LOOP"
      [] elementName = "iteration" -> "LOOP_ITERATION"
      [] elementName = "procedure" -> "PROCEDURE"
      [] elementName = "if"        -> "IF_CONTEXT"
      [] elementName = "try"       -> "TRY_CONTEXT"
      [] elementName = "condition" -> "BRANCH_CONDITION"
      [] elementName = "then"      -> "THEN_BRANCH"
      [] elementName = "else"      -> "ELSE_BRANCH"
      [] elementName = "or"        -> "OR_CONTEXT"
      [] elementName = "left"      -> "OR_LEFT"
      [] elementName = "right"     -> "OR_RIGHT"
      [] elementName = "skip"      -> "SKIP"
      [] elementName = "break"     -> "BREAK"
      [] elementName = "fail"      -> "FAIL"
      [] OTHER -> "UNKNOWN"

changeTypeFromXML(elementName) ==
    CASE elementName = "createEdge"  -> "ADD_EDGE"
      [] elementName = "createNode"  -> "ADD_NODE"
      [] elementName = "deleteEdge"  -> "DELETE_EDGE"
      [] elementName = "deleteNode"  -> "DELETE_NODE"
      [] elementName = "relabelEdge" -> "RELABEL_EDGE"
      [] elementName = "relabelNode" -> "RELABEL_NODE"
      [] elementName = "remarkEdge"  -> "REMARK_EDGE"
      [] elementName = "remarkNode"  -> "REMARK_NODE"
      [] elementName = "setRoot"     -> "SET_ROOT"
      [] OTHER -> "INVALID"

-----------------------------------------------------------------------------
(* TraceRunner: parsing *)

\* a default-constructed node_t / edge_t
NoItem == [id |-> "", label |-> [mark |-> "", values |-> <<>>], isRoot |-> FALSE,
           from |-> "", to |-> "", xPos |-> 0]

parseLabel(label, mark) ==
    [mark   |-> CASE mark = <<"1">> -> "red"
                  [] mark = <<"2">> -> "green"
                  [] mark = <<"3">> -> "blue"
                  [] mark = <<"4">> -> "dashed"
                  [] OTHER -> "none",
     values |-> Split(label)]

parseEdge(attrs) ==
    [NoItem EXCEPT !.id = attrs.id, !.from = attrs.source, !.to = attrs.target,
                   !.label = parseLabel(attrs.label, attrs.mark)]

\* ATTRIBUTE_AS_ASCII(xmlAttributes, "root") == "true" compares the address of
\* the attribute's bytes with the address of a string literal: never equal
parseNode(attrs) ==
    [NoItem EXCEPT !.id = attrs.id, !.isRoot = FALSE,
                   !.label = parseLabel(attrs.label, attrs.mark)]

\* [ok, change]: ok is parseGraphChange's return value
parseGraphChange(r) ==
    LET type  == changeTypeFromXML(r.name)
        attrs == r.a
        ch(e, n) == [ok |-> TRUE, change |-> [type |-> type, existingItem |-> e, newItem |-> n]]
        id    == [NoItem EXCEPT !.id = attrs.id]
    IN  CASE type = "ADD_EDGE"     -> ch(NoItem, parseEdge(attrs))
          [] type = "ADD_NODE"     -> ch(NoItem, parseNode(attrs))
          [] type = "DELETE_EDGE"  -> ch(parseEdge(attrs), NoItem)
          [] type = "DELETE_NODE"  -> ch(parseNode(attrs), NoItem)
          [] type \in {"RELABEL_EDGE", "RELABEL_NODE"} ->
                ch([id EXCEPT !.label = parseLabel(attrs.old, <<>>)],
                   [id EXCEPT !.label = parseLabel(attrs.new, <<>>)])
          [] type \in {"REMARK_EDGE", "REMARK_NODE"} ->
                ch([id EXCEPT !.label = parseLabel(<<>>, attrs.old)],
                   [id EXCEPT !.label = parseLabel(<<>>, attrs.new)])
          [] type = "SET_ROOT"     -> ch([id EXCEPT !.isRoot = FALSE], [id EXCEPT !.isRoot = TRUE])
          [] type = "REMOVE_ROOT"  -> ch([id EXCEPT !.isRoot = TRUE], [id EXCEPT !.isRoot = FALSE])
          [] OTHER -> [ok |-> FALSE, change |-> [type |-> type, existingItem |-> NoItem,
                                                  newItem |-> NoItem]]

NewStep == [type |-> "UNKNOWN", contextName |-> "", endOfContext |-> FALSE, graphChanges |-> <<>>]

RECURSIVE matchItems(_, _)
\* the loop of parseStartElement's case RULE_MATCH, entered with the token
\* after <match>: [r, changes, ok]
matchItems(r, changes) ==
    IF r.type = "EndElement" /\ r.name = "match"
    THEN [r |-> r, changes |-> changes, ok |-> TRUE]
    ELSE IF r.type = "Invalid"
    THEN [r |-> r, changes |-> changes, ok |-> FALSE]
    ELSE IF r.type /= "StartElement"
    THEN matchItems(readNext(r), changes)
    ELSE IF r.name \in {"node", "edge"}
    THEN matchItems(readNext(r),
                    Append(changes, [type |-> "MORPHISM",
                                     existingItem |-> [NoItem EXCEPT !.id = r.a.id],
                                     newItem |-> NoItem]))
    ELSE matchItems(readNext(r), changes)

\* withChange pushing the change whatever parseGraphChange returned
withChangePushed(changes, c) == Append(changes, c.change)

\* step->graphChanges.push_back(change) if parseGraphChange succeeded
withChange(changes, c) == IF c.ok THEN Append(changes, c.change) ELSE changes

RECURSIVE applyItems(_, _)
\* the loop of parseStartElement's case RULE_APPLICATION, entered with the
\* token after <apply>: [r, changes, ok]
applyItems(r, changes) ==
    IF r.type = "EndElement" /\ r.name = "apply"
    THEN [r |-> r, changes |-> changes, ok |-> TRUE]
    ELSE IF r.type = "Invalid"
    THEN [r |-> r, changes |-> changes, ok |-> FALSE]
    ELSE IF r.type /= "StartElement"
    THEN applyItems(readNext(r), changes)
    ELSE applyItems(readNext(r), withChange(changes, parseGraphChange(r)))

\* step->type of a <match>: the two assignments of case RULE_MATCH in their
\* order, the second overwriting the first
matchStepType(success) ==
    LET assigned == << IF success = "true" THEN "RULE_MATCH" ELSE "RULE_MATCH_FAILED",
                       "RULE_MATCH" >>
    IN  assigned[Len(assigned)]

\* what parseStartElement leaves when the loop over the items of a <match>
\* or <apply> ended as m: the reader, the step of this type, the return value
itemsStep(type, m) ==
    [r |-> m.r, ok |-> m.ok,
     step |-> [NewStep EXCEPT !.type = type, !.graphChanges = m.changes]]

\* TraceRunner::parseStartElement(step): [r, step, ok] for the start element
\* the reader r is at
parseStartElement(r) ==
    LET type == stepTypeFromXML(r.name)
    IN  CASE type = "RULE_MATCH" ->
                itemsStep(matchStepType(r.a.success), matchItems(readNext(r), <<>>))
          [] type = "RULE_APPLICATION" ->
                itemsStep("RULE_APPLICATION", applyItems(readNext(r), <<>>))
          [] type = "UNKNOWN" -> [r |-> r, ok |-> FALSE, step |-> NewStep]
          [] OTHER ->
                [r |-> r, ok |-> TRUE,
                 step |-> [NewStep EXCEPT !.type = type,
                                          !.contextName = IF r.a.name /= "" THEN r.a.name ELSE ""]]

RECURSIVE firstRuleName(_, _)
\* the name of the first RULE step among steps[1..i]
firstRuleName(steps, i) ==
    IF i = 0 THEN ""
    ELSE IF firstRuleName(steps, i - 1) /= "" THEN firstRuleName(steps, i - 1)
    ELSE IF steps[i].type = "RULE" THEN steps[i].contextName
    ELSE ""

RECURSIVE lastRuleName(_, _)
\* the name of the most recently added RULE step among steps[1..i]
lastRuleName(steps, i) ==
    IF i = 0 THEN ""
    ELSE IF steps[i].type = "RULE" THEN steps[i].contextName
    ELSE lastRuleName(steps, i - 1)

RECURSIVE lastProcedureName(_, _, _)
\* the name of the most recently added PROCEDURE step among steps[1..i]
lastProcedureName(steps, i, nestedContexts) ==
    IF i = 0 THEN ""
    ELSE IF steps[i].type = "PROCEDURE" THEN steps[i].contextName
    ELSE lastProcedureName(steps, i - 1, nestedContexts)

RECURSIVE openProcedureName(_, _, _)
\* the name of the PROCEDURE step among steps[1..i] that the end being
\* parsed closes, skipping one start for every end passed on the way
openProcedureName(steps, i, nestedContexts) ==
    IF i = 0 THEN ""
    ELSE IF steps[i].type /= "PROCEDURE" THEN openProcedureName(steps, i - 1, nestedContexts)
    ELSE IF steps[i].endOfContext THEN openProcedureName(steps, i - 1, nestedContexts + 1)
    ELSE IF nestedContexts > 0 THEN openProcedureName(steps, i - 1, nestedContexts - 1)
    ELSE steps[i].contextName

\* _traceSteps.push_back(step), and the synthetic end of a <match>
pushStep(s, step) ==
    LET matchEnd == [NewStep EXCEPT !.type = step.type, !.endOfContext = TRUE]
    IN  [s EXCEPT !.traceSteps =
                      IF step.type \in {"RULE_MATCH", "RULE_MATCH_FAILED"}
                      THEN Append(Append(@, step), matchEnd)
                      ELSE Append(@, step),
                  !.ret = TRUE]

\* case StartElement of parseStep, parseStartElement having returned p
startElementStep(s, p) ==
    IF ~p.ok THEN [s EXCEPT !.rd = p.r, !.ret = FALSE]
    ELSE pushStep([s EXCEPT !.rd = p.r], p.step)

RECURSIVE parseStep(_)
\* TraceRunner::parseStep(); .ret is its return value
parseStep(s) ==
    IF atEnd(s.rd) THEN [s EXCEPT !.parseComplete = TRUE, !.ret = TRUE]
    ELSE IF hasError(s.rd) THEN [s EXCEPT !.ret = FALSE]
    ELSE
      LET r  == readNext(s.rd)
          s1 == [s EXCEPT !.rd = r]
      IN  CASE r.type = "StartElement" -> startElementStep(s1, parseStartElement(r))
            [] r.type = "EndElement" ->
                  LET type == stepTypeFromXML(r.name)
                  IN  IF type \in {"SKIP", "BREAK", "FAIL", "UNKNOWN"}
                      THEN parseStep(s1)
                      ELSE pushStep(s1,
                             [NewStep EXCEPT
                                !.type = type,
                                !.endOfContext = TRUE,
                                !.contextName =
                                    CASE type = "RULE" ->
                                            lastRuleName(s.traceSteps, Len(s.traceSteps))
                                      [] type = "PROCEDURE" ->
                                            openProcedureName(s.traceSteps, Len(s.traceSteps), 0)
                                      [] OTHER -> ""])
            [] r.type = "EndDocument" -> [s1 EXCEPT !.parseComplete = TRUE, !.ret = TRUE]
            [] r.type = "Invalid" ->
                  IF xmlError(r) = "PrematureEndOfDocumentError"
                  THEN [s1 EXCEPT !.parseComplete = TRUE, !.ret = TRUE]
                  ELSE [s1 EXCEPT !.ret = FALSE]
            [] OTHER -> parseStep(s1)

-----------------------------------------------------------------------------
(* TraceParser (traceparser.cpp) *)

stepTypeFromTagName(tagName) ==
    CASE tagName = "rule"        -> "RULE"
      [] tagName = "match"       -> "RULE_MATCH"
      [] tagName = "apply"       -> "RULE_APPLICATION"
      [] tagName = "ruleset"     -> "RULE_SET"
      [] tagName = "loop"        -> "LOOP"
      [] tagName = "iteration"   -> "LOOP_ITERATION"
      [] tagName = "procedure"   -> "PROCEDURE"
      [] tagName = "if"          -> "IF_CONTEXT"
      [] tagName = "try"         -> "TRY_CONTEXT"
      [] tagName = "condition"   -> "BRANCH_CONDITION"
      [] tagName = "then"        -> "THEN_BRANCH"
      [] tagName = "else"        -> "ELSE_BRANCH"
      [] tagName = "or"          -> "OR_CONTEXT"
      [] tagName = "leftBranch"  -> "OR_LEFT"
      [] tagName = "rightBranch" -> "OR_RIGHT"
      [] tagName = "skip"        -> "SKIP"
      [] tagName = "break"       -> "BREAK"
      [] tagName = "fail"        -> "FAIL"
      [] OTHER -> "UNKNOWN"

graphChangeTypeFromTagName(tagName) ==
    CASE tagName = "createEdge"  -> "ADD_EDGE"
      [] tagName = "createNode"  -> "ADD_NODE"
      [] tagName = "deleteEdge"  -> "DELETE_EDGE"
      [] tagName = "deleteNode"  -> "DELETE_NODE"
      [] tagName = "relabelEdge" -> "RELABEL_EDGE"
      [] tagName = "relabelNode" -> "RELABEL_NODE"
      [] tagName = "remarkEdge"  -> "REMARK_EDGE"
      [] tagName = "remarkNode"  -> "REMARK_NODE"
      [] tagName = "setRoot"     -> "SET_ROOT"
      [] tagName = "removeRoot"  -> "REMOVE_ROOT"
      [] OTHER -> "INVALID"

\* TraceParser::parseGraphChange(change): [ok, change]; parseEdge, parseNode
\* and parseLabel of TraceParser are those of TraceRunner word for word
TraceParser_parseGraphChange(r) ==
    LET type  == graphChangeTypeFromTagName(r.name)
        attrs == r.a
        ch(e, n) == [ok |-> TRUE, change |-> [type |-> type, existingItem |-> e, newItem |-> n]]
        id    == [NoItem EXCEPT !.id = attrs.id]
    IN  CASE type = "ADD_EDGE"     -> ch(NoItem, parseEdge(attrs))
          [] type = "ADD_NODE"     -> ch(NoItem, parseNode(attrs))
          [] type = "DELETE_EDGE"  -> ch(parseEdge(attrs), NoItem)
          [] type = "DELETE_NODE"  -> ch(parseNode(attrs), NoItem)
          [] type \in {"RELABEL_EDGE", "RELABEL_NODE"} ->
                ch([id EXCEPT !.label = parseLabel(attrs.old, <<>>)],
                   [id EXCEPT !.label = parseLabel(attrs.new, <<>>)])
          [] type \in {"REMARK_EDGE", "REMARK_NODE"} ->
                ch([id EXCEPT !.label = parseLabel(<<>>, attrs.old)],
                   [id EXCEPT !.label = parseLabel(<<>>, attrs.new)])
          [] type = "SET_ROOT"     -> ch([id EXCEPT !.isRoot = FALSE], [id EXCEPT !.isRoot = TRUE])
          [] type = "REMOVE_ROOT"  -> ch([id EXCEPT !.isRoot = TRUE], [id EXCEPT !.isRoot = FALSE])
          [] OTHER -> [ok |-> FALSE, change |-> [type |-> type, existingItem |-> NoItem,
                                                  newItem |-> NoItem]]

RECURSIVE TraceParser_applyItems(_, _)
\* the loop of TraceParser::parseStartElement's case RULE_APPLICATION,
\* entered with the token after <apply>: [r, changes, ok]
TraceParser_applyItems(r, changes) ==
    IF r.type = "EndElement" /\ r.name = "apply"
    THEN [r |-> r, changes |-> changes, ok |-> TRUE]
    ELSE IF r.type = "Invalid"
    THEN [r |-> r, changes |-> changes, ok |-> FALSE]
    ELSE IF r.type /= "StartElement"
    THEN TraceParser_applyItems(readNext(r), changes)
    ELSE TraceParser_applyItems(readNext(r),
                                withChange(changes, TraceParser_parseGraphChange(r)))

\* a default-constructed TraceStep with the defaults parseStep sets
NewTraceStep ==
    [type |-> "UNKNOWN", contextName |-> "", endOfContext |-> FALSE, loopBoundary |-> FALSE,
     virtualStep |-> FALSE, graphChanges |-> <<>>]

\* a TraceParser whose constructor returned early: its fields, the steps its
\* caller was given (steps), whether no call of parseStep has returned false
\* (ret) and whether a call popped the empty stack of names (ub)
NoParser ==
    [initialised |-> FALSE, rd |-> ReaderAtRoot, parseComplete |-> FALSE,
     unmatchedContextNames |-> <<>>, steps |-> <<>>, ret |-> TRUE, ub |-> FALSE]

\* TraceParser::TraceParser(tracefilePath), for a file whose root element is
\* named rootName
TraceParser(rootName) ==
    IF rootName /= "trace" THEN NoParser ELSE [NoParser EXCEPT !.initialised = TRUE]

\* what parseStartElement leaves when the loop over the items of a <match>
\* or <apply> ended as m; the items are pushed on the step's own vector
TraceParser_itemsStep(p, step, type, m) ==
    [p |-> [p EXCEPT !.rd = m.r], ok |-> m.ok,
     step |-> [step EXCEPT !.type = type, !.graphChanges = m.changes]]

\* TraceParser::parseStartElement(step): [p, step, ok] for the start element
\* the reader of p is at; the loop over the items of a <match> is that of
\* TraceRunner word for word
TraceParser_parseStartElement(p, step) ==
    LET r    == p.rd
        type == stepTypeFromTagName(r.name)
    IN  CASE type = "RULE_MATCH" ->
                TraceParser_itemsStep(p, step, matchStepType(r.a.success),
                                      matchItems(readNext(r), step.graphChanges))
          [] type = "RULE_APPLICATION" ->
                TraceParser_itemsStep(p, step, "RULE_APPLICATION",
                                      TraceParser_applyItems(readNext(r), step.graphChanges))
          [] type = "UNKNOWN" -> [p |-> p, ok |-> FALSE, step |-> step]
          [] type \in {"RULE", "PROCEDURE"} ->
                [p |-> [p EXCEPT !.unmatchedContextNames = Append(@, r.a.name)],
                 ok |-> TRUE,
                 step |-> [step EXCEPT !.type = type, !.contextName = r.a.name]]
          [] OTHER -> [p |-> p, ok |-> TRUE, step |-> [step EXCEPT !.type = type]]

\* parseEndElement ignoring every end element, as it does those of leaves
TraceParser_parseEndElementIgnored(p, step) ==
    [p |-> [p EXCEPT !.parseComplete = (p.rd.name = "trace")], ok |-> FALSE, step |-> step]

\* parseEndElement leaving a Rule or Procedure end step without its name
TraceParser_parseEndElementUnnamed(p, step) ==
    LET type == stepTypeFromTagName(p.rd.name)
    IN  IF p.rd.name = "trace"
        THEN [p |-> [p EXCEPT !.parseComplete = TRUE], ok |-> FALSE, step |-> step]
        ELSE IF type \in {"SKIP", "BREAK", "FAIL", "UNKNOWN"}
        THEN [p |-> p, ok |-> FALSE, step |-> step]
        ELSE [p |-> p, ok |-> TRUE,
              step |-> [step EXCEPT !.type = type, !.endOfContext = TRUE]]

\* TraceParser::parseEndElement(step): [p, step, ok] for the end element the
\* reader of p is at; QStack::pop() of an empty stack is undefined
TraceParser_parseEndElement(p, step) ==
    LET type  == stepTypeFromTagName(p.rd.name)
        ended == [step EXCEPT !.type = type, !.endOfContext = TRUE]
        names == p.unmatchedContextNames
    IN  IF p.rd.name = "trace"
        THEN [p |-> [p EXCEPT !.parseComplete = TRUE], ok |-> FALSE, step |-> step]
        ELSE IF type \in {"SKIP", "BREAK", "FAIL", "UNKNOWN"}
        THEN [p |-> p, ok |-> FALSE, step |-> step]
        ELSE IF type \notin {"RULE", "PROCEDURE"}
        THEN [p |-> p, ok |-> TRUE, step |-> ended]
        ELSE IF names = <<>>
        THEN [p |-> [p EXCEPT !.ub = TRUE], ok |-> TRUE, step |-> ended]
        ELSE [p |-> [p EXCEPT !.unmatchedContextNames = SubSeq(names, 1, Len(names) - 1)],
              ok |-> TRUE,
              step |-> [ended EXCEPT !.contextName = names[Len(names)]]]

RECURSIVE TraceParser_parseLoop(_, _)
\* the loop of TraceParser::parseStep: [p, step], p.ret the return value;
\* when parseStartElement or parseEndElement returned false the switch is
\* left by break and the loop goes round again
TraceParser_parseLoop(p, step) ==
    IF p.parseComplete THEN [p |-> [p EXCEPT !.ret = FALSE], step |-> step]
    ELSE IF atEnd(p.rd)
    THEN [p |-> [p EXCEPT !.parseComplete = TRUE, !.ret = TRUE], step |-> step]
    ELSE IF hasError(p.rd) THEN [p |-> [p EXCEPT !.ret = FALSE], step |-> step]
    ELSE
      LET r  == readNext(p.rd)
          p1 == [p EXCEPT !.rd = r]
          returned(a) ==
              IF a.ok THEN [p |-> [a.p EXCEPT !.ret = TRUE], step |-> a.step]
              ELSE TraceParser_parseLoop(a.p, a.step)
      IN  CASE r.type = "StartElement" -> returned(TraceParser_parseStartElement(p1, step))
            [] r.type = "EndElement" -> returned(TraceParser_parseEndElement(p1, step))
            [] r.type = "EndDocument" ->
                  [p |-> [p1 EXCEPT !.parseComplete = TRUE, !.ret = TRUE], step |-> step]
            [] r.type = "Invalid" ->
                  IF xmlError(r) = "PrematureEndOfDocumentError"
                  THEN [p |-> [p1 EXCEPT !.parseComplete = TRUE, !.ret = TRUE], step |-> step]
                  ELSE [p |-> [p1 EXCEPT !.ret = FALSE], step |-> step]
            [] OTHER -> TraceParser_parseLoop(p1, step)

\* TraceParser::parseStep(step): the defaults, then the loop
TraceParser_parseStep(p, step) ==
    TraceParser_parseLoop(p, [step EXCEPT !.contextName = "", !.endOfContext = FALSE,
                                          !.loopBoundary = FALSE, !.virtualStep = FALSE,
                                          !.type = "UNKNOWN"])

-----------------------------------------------------------------------------
(* The host graph (class Graph, used through TraceRunner::_graph) *)

NoGraph == [nodes |-> <<>>, edges |-> <<>>]

hasNode(g, id) == id \in DOMAIN g.nodes
hasEdge(g, id) == id \in DOMAIN g.edges

Without(f, id) == [k \in DOMAIN f \ {id} |-> f[k]]

\* Graph::addNode(id, label, mark, isRoot, ..., pos)
addNode(g, id, label, mark, isRoot, pos) ==
    [g EXCEPT !.nodes = (id :> [label |-> label, mark |-> mark, isRoot |-> isRoot,
                                pos |-> pos]) @@ @]

\* Graph::removeNode(id): a node cannot be deleted while an edge is attached
\* to it (the comment in revertCurrentStepChanges), the graph is then left
\* as it is
removeNode(g, id) ==
    IF \E e \in DOMAIN g.edges : g.edges[e].from = id \/ g.edges[e].to = id
    THEN g
    ELSE [g EXCEPT !.nodes = Without(@, id)]

\* Graph::addEdge(id, from, to, label, mark)
addEdge(g, id, from, to, label, mark) ==
    [g EXCEPT !.edges = (id :> [from |-> from, to |-> to, label |-> label,
                                mark |-> mark]) @@ @]

\* Graph::removeEdge(id)
removeEdge(g, id) == [g EXCEPT !.edges = Without(@, id)]

\* the position Graph::addNode gives a node added without one
DefaultPos == 0

\* one GraphChange of applyCurrentStepChanges' loop: [graph, change, ub], the
\* change as it is left in the step (DELETE_NODE stores the position), ub
\* when a node or edge the change names is not in the graph (a null pointer
\* is dereferenced)
applyChange(g, change) ==
    LET new  == change.newItem
        old  == change.existingItem
        same == [graph |-> g, change |-> change, ub |-> FALSE]
        bad  == [graph |-> g, change |-> change, ub |-> TRUE]
    IN  CASE change.type = "ADD_EDGE" ->
                [same EXCEPT !.graph = addEdge(g, new.id, new.from, new.to,
                                               ListToString(new.label.values), new.label.mark)]
          [] change.type = "ADD_NODE" ->
                [same EXCEPT !.graph = addNode(g, new.id, ListToString(new.label.values),
                                               new.label.mark, new.isRoot, DefaultPos)]
          [] change.type = "DELETE_EDGE" ->
                [same EXCEPT !.graph = removeEdge(g, old.id)]
          [] change.type = "DELETE_NODE" ->
                IF ~hasNode(g, old.id) THEN bad
                ELSE [same EXCEPT !.graph = removeNode(g, old.id),
                                  !.change.existingItem.xPos = g.nodes[old.id].pos]
          [] change.type = "RELABEL_EDGE" ->
                IF ~hasEdge(g, new.id) THEN bad
                ELSE [same EXCEPT !.graph.edges[new.id].label = ListToString(new.label.values)]
          [] change.type = "RELABEL_NODE" ->
                IF ~hasNode(g, new.id) THEN bad
                ELSE [same EXCEPT !.graph.nodes[new.id].label = ListToString(new.label.values)]
          [] change.type = "REMARK_EDGE" ->
                IF ~hasEdge(g, new.id) THEN bad
                ELSE [same EXCEPT !.graph.edges[new.id].mark = new.label.mark]
          [] change.type = "REMARK_NODE" ->
                IF ~hasNode(g, new.id) THEN bad
                ELSE [same EXCEPT !.graph.nodes[new.id].mark = new.label.mark]
          [] change.type = "SET_ROOT" ->
                IF ~hasNode(g, new.id) THEN bad
                ELSE [same EXCEPT !.graph.nodes[new.id].isRoot = TRUE]
          [] change.type = "REMOVE_ROOT" ->
                IF ~hasNode(g, new.id) THEN bad
                ELSE [same EXCEPT !.graph.nodes[new.id].isRoot = FALSE]
          [] OTHER -> same

\* revertChange invoking the forward effect once more
revertChangeAsApplied(g, change) == [graph |-> applyChange(g, change).graph, ub |-> FALSE]

\* one GraphChange of revertCurrentStepChanges' loop: [graph, ub]
revertChange(g, change) ==
    LET new  == change.newItem
        old  == change.existingItem
        same == [graph |-> g, ub |-> FALSE]
        bad  == [graph |-> g, ub |-> TRUE]
    IN  CASE change.type = "ADD_EDGE" ->
                [same EXCEPT !.graph = removeEdge(g, new.id)]
          [] change.type = "ADD_NODE" ->
                [same EXCEPT !.graph = removeNode(g, new.id)]
          [] change.type = "DELETE_EDGE" ->
                [same EXCEPT !.graph = addEdge(g, old.id, old.from, old.to,
                                               ListToString(old.label.values), old.label.mark)]
          [] change.type = "DELETE_NODE" ->
                [same EXCEPT !.graph = addNode(g, old.id, ListToString(old.label.values),
                                               old.label.mark, old.isRoot, old.xPos)]
          [] change.type = "RELABEL_EDGE" ->
                IF ~hasEdge(g, old.id) THEN bad
                ELSE [same EXCEPT !.graph.edges[old.id].label = ListToString(old.label.values)]
          [] change.type = "RELABEL_NODE" ->
                IF ~hasNode(g, old.id) THEN bad
                ELSE [same EXCEPT !.graph.nodes[old.id].label = ListToString(old.label.values)]
          [] change.type = "REMARK_EDGE" ->
                IF ~hasEdge(g, old.id) THEN bad
                ELSE [same EXCEPT !.graph.edges[old.id].mark = old.label.mark]
          [] change.type = "REMARK_NODE" ->
                IF ~hasNode(g, old.id) THEN bad
                ELSE [same EXCEPT !.graph.nodes[old.id].mark = old.label.mark]
          [] change.type = "SET_ROOT" ->
                IF ~hasNode(g, new.id) THEN bad
                ELSE [same EXCEPT !.graph.nodes[new.id].isRoot = FALSE]
          [] change.type = "REMOVE_ROOT" ->
                IF ~hasNode(g, new.id) THEN bad
                ELSE [same EXCEPT !.graph.nodes[new.id].isRoot = TRUE]
          [] OTHER -> same

RECURSIVE revertChangesForward(_, _, _)
\* the loop of revertCurrentStepChanges going through the changes first to last
revertChangesForward(g, changes, i) ==
    IF i < 1 THEN [graph |-> g, ub |-> FALSE]
    ELSE LET a == revertChange(g, changes[Len(changes) + 1 - i])
         IN  IF a.ub THEN a ELSE revertChangesForward(a.graph, changes, i - 1)

RECURSIVE applyChangesFrom(_, _, _), applyChangesAfter(_, _, _)
\* the loop of applyCurrentStepChanges from change i on: [graph, changes, ub]
applyChangesFrom(g, changes, i) ==
    IF i > Len(changes) THEN [graph |-> g, changes |-> changes, ub |-> FALSE]
    ELSE applyChangesAfter(applyChange(g, changes[i]), changes, i)

\* the rest of the loop, change i having been applied as a
applyChangesAfter(a, changes, i) ==
    IF a.ub THEN [graph |-> a.graph, changes |-> changes, ub |-> TRUE]
    ELSE applyChangesFrom(a.graph, [changes EXCEPT ![i] = a.change], i + 1)

RECURSIVE revertChangesFrom(_, _, _), revertChangesAfter(_, _, _)
\* the loop of revertCurrentStepChanges from change i down: [graph, ub]
revertChangesFrom(g, changes, i) ==
    IF i < 1 THEN [graph |-> g, ub |-> FALSE]
    ELSE revertChangesAfter(revertChange(g, changes[i]), changes, i)

\* the rest of the loop, change i having been reverted as a
revertChangesAfter(a, changes, i) ==
    IF a.ub THEN a ELSE revertChangesFrom(a.graph, changes, i - 1)

\* the step at the 0-based position i of _traceSteps
stepAt(s, i) == s.traceSteps[i + 1]

inSteps(s, i) == i >= 0 /\ i < Len(s.traceSteps)

\* the runner after the loop left the graph and the step's changes as a
withApplied(s, a) ==
    [s EXCEPT !.graph = a.graph,
              !.traceSteps[s.currentStep + 1].graphChanges = a.changes,
              !.ub = a.ub]

withReverted(s, a) == [s EXCEPT !.graph = a.graph, !.ub = a.ub]

\* TraceRunner::applyCurrentStepChanges()
applyCurrentStepChanges(s) ==
    IF ~inSteps(s, s.currentStep) THEN [s EXCEPT !.ub = TRUE]
    ELSE IF stepAt(s, s.currentStep).type /= "RULE_APPLICATION" THEN s
    ELSE withApplied(s, applyChangesFrom(s.graph, stepAt(s, s.currentStep).graphChanges, 1))

\* TraceRunner::revertCurrentStepChanges()
revertCurrentStepChanges(s) ==
    IF ~inSteps(s, s.currentStep) THEN [s EXCEPT !.ub = TRUE]
    ELSE IF stepAt(s, s.currentStep).type /= "RULE_APPLICATION" THEN s
    ELSE withReverted(s, revertChangesFrom(s.graph, stepAt(s, s.currentStep).graphChanges,
                                           Len(stepAt(s, s.currentStep).graphChanges)))

\* enterContext that puts the input graph back on entering a then branch
enterContextRestoring(s, context) ==
    [s EXCEPT !.contextStack = Append(@, context.type),
              !.graph = IF context.type = "THEN_BRANCH" THEN inputGraph ELSE @]

\* TraceRunner::enterContext(context)
enterContext(s, context) == [s EXCEPT !.contextStack = Append(@, context.type)]

\* TraceRunner::exitContext(): QStack::pop() of an empty stack is undefined
exitContext(s) ==
    IF s.contextStack = <<>> THEN [s EXCEPT !.ub = TRUE]
    ELSE [s EXCEPT !.contextStack = SubSeq(@, 1, Len(@) - 1)]

-----------------------------------------------------------------------------
(* TraceRunner: the highlight on the program's tokens *)

\* the token at the 0-based position i of _programTokens
tokenAt(i) == programTokens[i + 1]

\* a TokenReference: the token (known by its position) and its index
TokenReference(i) == [token |-> i, index |-> i]

top(stack) == stack[Len(stack)]
pop(stack) == SubSeq(stack, 1, Len(stack) - 1)

\* TraceRunner::removeHighlights()
removeHighlights(s) == [s EXCEPT !.emphasise = [i \in DOMAIN @ |-> FALSE]]

\* newToken.token->emphasise = true; _tokenStack.push(newToken)
emphasised(s, newToken) ==
    [s EXCEPT !.emphasise[newToken.token + 1] = TRUE,
              !.tokenStack = Append(@, newToken)]

\* TraceRunner::replaceCurrentHighlight(newToken)
replaceCurrentHighlight(s, newToken) ==
    emphasised(IF s.tokenStack /= <<>>
               THEN [s EXCEPT !.emphasise[top(s.tokenStack).token + 1] = FALSE,
                              !.tokenStack = pop(@)]
               ELSE s,
               newToken)

\* pushHighlight without the un-emphasising of the previous top
pushHighlightKeepingPrevious(s, newToken) == emphasised(s, newToken)

\* TraceRunner::pushHighlight(newToken)
pushHighlight(s, newToken) ==
    emphasised(IF s.tokenStack /= <<>>
               THEN [s EXCEPT !.emphasise[top(s.tokenStack).token + 1] = FALSE]
               ELSE s,
               newToken)

\* TraceRunner::popHighlight()
popHighlight(s) ==
    IF s.tokenStack = <<>> THEN [s EXCEPT !.ub = TRUE]
    ELSE IF Len(s.tokenStack) > 1
    THEN [s EXCEPT !.emphasise[top(s.tokenStack).token + 1] = FALSE,
                   !.emphasise[top(pop(s.tokenStack)).token + 1] = TRUE,
                   !.tokenStack = pop(@)]
    ELSE [s EXCEPT !.emphasise[top(s.tokenStack).token + 1] = FALSE,
                   !.tokenStack = pop(@)]

RECURSIVE findDeclaration(_, _)
\* the search for a procedure's declaration from searchPos on: the index of
\* the first Declaration token of that name followed by "=", -1 when there
\* is none, -2 when the token after the last one is read
findDeclaration(name, searchPos) ==
    IF searchPos >= Len(programTokens) THEN -1
    ELSE IF tokenAt(searchPos).lexeme = "Declaration" /\ tokenAt(searchPos).text = name
    THEN IF searchPos + 1 >= Len(programTokens) THEN -2
         ELSE IF tokenAt(searchPos + 1).lexeme = "DeclarationOperator" THEN searchPos
         ELSE findDeclaration(name, searchPos + 1)
    ELSE findDeclaration(name, searchPos + 1)

RECURSIVE findToken(_, _, _, _, _)
\* the search loops of updateProgramPosition's switch: the index of the first
\* token from searchPos in the direction of travel with this lexeme (and this
\* text, where the loop compares it), -1 when the search leaves the vector
findToken(searchPos, backwards, lexeme, compareText, text) ==
    IF ~(searchPos >= 0 /\ searchPos < Len(programTokens)) THEN -1
    ELSE IF tokenAt(searchPos).lexeme = lexeme
            /\ (compareText => tokenAt(searchPos).text = text)
    THEN searchPos
    ELSE findToken(IF backwards THEN searchPos - 1 ELSE searchPos + 1,
                   backwards, lexeme, compareText, text)

\* the end of the search for a declaration
pushFound(s, found) ==
    CASE found = -2 -> [s EXCEPT !.ub = TRUE]
      [] found = -1 -> s
      [] OTHER -> pushHighlight(s, TokenReference(found))

\* the end of a search of updateProgramPosition's switch
replaceFound(s, found) ==
    IF found = -1 THEN s ELSE replaceCurrentHighlight(s, TokenReference(found))

\* the first part of updateProgramPosition: the jump to the declaration of
\* the procedure whose call was just entered
jumpToDeclaration(s) ==
    IF s.currentStep > 0
    THEN IF ~inSteps(s, s.currentStep - 1) THEN [s EXCEPT !.ub = TRUE]
         ELSE LET previousStep == stepAt(s, s.currentStep - 1)
              IN  IF previousStep.type = "PROCEDURE" /\ ~previousStep.endOfContext
                  THEN pushFound(s, findDeclaration(previousStep.contextName, 0))
                  ELSE s
    ELSE s

\* updateProgramPosition from the choice of searchPos on
highlightCurrentStep(s, backwards) ==
    LET searchPos ==
            IF s.tokenStack = <<>>
            THEN (IF backwards THEN Len(programTokens) - 1 ELSE 0)
            ELSE (IF backwards THEN top(s.tokenStack).index - 1
                               ELSE top(s.tokenStack).index + 1)
    IN  IF s.ub THEN s
        ELSE IF s.currentStep >= Len(s.traceSteps)
        THEN IF s.tokenStack = <<>>
             THEN [removeHighlights(s) EXCEPT !.ub = TRUE]
             ELSE [removeHighlights(s) EXCEPT !.tokenStack = pop(@)]
        ELSE IF s.currentStep < 0 THEN [s EXCEPT !.ub = TRUE]
        ELSE
          LET step == stepAt(s, s.currentStep)
          IN  CASE step.type = "RULE" ->
                      IF backwards /= step.endOfContext THEN s
                      ELSE replaceFound(
                               [s EXCEPT !.traceSteps[s.currentStep + 1].contextName
                                             = RemoveMain(step.contextName)],
                               findToken(searchPos, backwards, "Identifier", TRUE,
                                         RemoveMain(step.contextName)))
                [] step.type = "RULE_SET" ->
                      replaceFound(s, findToken(searchPos, backwards,
                                                IF step.endOfContext THEN "CloseBrace"
                                                                     ELSE "OpenBrace",
                                                FALSE, ""))
                [] step.type = "PROCEDURE" ->
                      replaceFound(s, findToken(searchPos, backwards, "Declaration",
                                                TRUE, step.contextName))
                [] OTHER -> s

\* TraceRunner::updateProgramPosition(backwards)
updateProgramPosition(s, backwards) ==
    highlightCurrentStep(jumpToDeclaration(s), backwards)

-----------------------------------------------------------------------------
(* TraceRunner: the public operations *)

isInitialised(s) == s.initialised

isForwardStepAvailable(s) == ~(s.currentStep >= Len(s.traceSteps) /\ s.parseComplete)

\* isBackwardStepAvailable with the comparison off by one
isBackwardStepAvailableFromZero(s) == IF s.currentStep < 0 THEN FALSE ELSE TRUE

isBackwardStepAvailable(s) == IF s.currentStep <= 0 THEN FALSE ELSE TRUE

\* [value, ub]: the value returned, or ub when _traceSteps[_currentStep] is
\* not an element of the vector
isFindMatchAvailable(s) ==
    IF s.currentStep >= Len(s.traceSteps) /\ s.parseComplete
    THEN [value |-> FALSE, ub |-> FALSE]
    ELSE IF ~inSteps(s, s.currentStep) THEN [value |-> FALSE, ub |-> TRUE]
    ELSE [value |-> stepAt(s, s.currentStep).type \in {"RULE_MATCH", "RULE_MATCH_FAILED"},
          ub |-> FALSE]

isMatchApplicationAvailable(s) ==
    IF s.currentStep >= Len(s.traceSteps) /\ s.parseComplete
    THEN [value |-> FALSE, ub |-> FALSE]
    ELSE IF ~inSteps(s, s.currentStep) THEN [value |-> FALSE, ub |-> TRUE]
    ELSE [value |-> stepAt(s, s.currentStep).type = "RULE_APPLICATION", ub |-> FALSE]

\* the end of stepForward, the next step being there or parsed
positioned(s) ==
    IF ~s.ret THEN s ELSE [updateProgramPosition(s, FALSE) EXCEPT !.ret = TRUE]

\* stepForward from "_currentStep += 1" on
moveOn(s) ==
    IF s.ub THEN s
    ELSE IF ~s.parseComplete /\ Len(s.traceSteps) <= s.currentStep + 1
    THEN positioned(parseStep([s EXCEPT !.currentStep = @ + 1]))
    ELSE positioned([s EXCEPT !.currentStep = @ + 1, !.ret = TRUE])

\* TraceRunner::stepForward(); .ret is its return value.  A failed Q_ASSERT
\* and a read of _traceSteps outside the vector end the call with .ub
stepForward(s) ==
    IF ~isForwardStepAvailable(s) THEN [s EXCEPT !.ub = TRUE]
    ELSE IF ~inSteps(s, s.currentStep) THEN [s EXCEPT !.ub = TRUE]
    ELSE
      LET step == stepAt(s, s.currentStep)
      IN  moveOn(IF step.type = "RULE_APPLICATION" THEN applyCurrentStepChanges(s)
                 ELSE IF step.endOfContext THEN exitContext(s)
                 ELSE enterContext(s, step))

\* the end of stepBackward
repositioned(s) ==
    IF s.ub THEN s ELSE [updateProgramPosition(s, TRUE) EXCEPT !.ret = TRUE]

\* stepBackward after "_currentStep -= 1"
movedBack(s) ==
    IF ~inSteps(s, s.currentStep) THEN [s EXCEPT !.ub = TRUE]
    ELSE LET step == stepAt(s, s.currentStep)
         IN  repositioned(IF step.type = "RULE_APPLICATION" THEN revertCurrentStepChanges(s)
                          ELSE IF step.endOfContext THEN enterContext(s, step)
                          ELSE exitContext(s))

\* stepBackward keeping only the steps before the new cursor
stepBackwardDroppingSteps(s) ==
    IF ~isBackwardStepAvailable(s) THEN [s EXCEPT !.ub = TRUE]
    ELSE movedBack([s EXCEPT !.currentStep = @ - 1,
                             !.traceSteps = SubSeq(@, 1, s.currentStep)])

\* TraceRunner::stepBackward()
stepBackward(s) ==
    IF ~isBackwardStepAvailable(s) THEN [s EXCEPT !.ub = TRUE]
    ELSE movedBack([s EXCEPT !.currentStep = @ - 1])

RECURSIVE goToEndFrom(_)
\* the loop of goToEnd; .ret is the variable success
goToEndFrom(s) ==
    IF isForwardStepAvailable(s) /\ s.ret /\ ~s.ub THEN goToEndFrom(stepForward(s)) ELSE s

RECURSIVE goToStartFrom(_)
\* goToEnd with the loop of goToStart
goToEndSteppingBackward(s) == goToStartFrom([s EXCEPT !.ret = TRUE])

\* TraceRunner::goToEnd()
goToEnd(s) == goToEndFrom([s EXCEPT !.ret = TRUE])

\* the loop of goToStart; .ret is the variable success
goToStartFrom(s) ==
    IF isBackwardStepAvailable(s) /\ s.ret /\ ~s.ub THEN goToStartFrom(stepBackward(s)) ELSE s

\* TraceRunner::goToStart()
goToStart(s) == goToStartFrom([s EXCEPT !.ret = TRUE])

-----------------------------------------------------------------------------
(* The constructor's arguments: a host graph, a GP2 program as the editor's *)
(* tokens, and the tracefile of a run of that program on that graph         *)

Token(lexeme, text) == [lexeme |-> lexeme, text |-> text]

\* the host graph every run starts from: a root node n1, a node n2 and an
\* edge e1 from n1 to n2
InputGraph ==
    [nodes |-> ("n1" :> [label |-> <<"a">>, mark |-> "none", isRoot |-> TRUE, pos |-> 1])
            @@ ("n2" :> [label |-> <<"b">>, mark |-> "none", isRoot |-> FALSE, pos |-> 2]),
     edges |-> ("e1" :> [from |-> "n1", to |-> "n2", label |-> <<"c">>, mark |-> "none"])]

Attrs(a) == a @@ NoAttrs

\* <rule name="Main_x"> <match success=..> items </match> [<apply> changes </apply>] </rule>
RuleTrace(name, success, items, changes) ==
    <<StartElement("rule", Attrs([name |-> name])),
      StartElement("match", Attrs([success |-> IF success THEN "true" ELSE "false"]))>>
    \o items \o <<EndElement("match")>>
    \o (IF success
        THEN <<StartElement("apply", NoAttrs)>> \o changes \o <<EndElement("apply")>>
        ELSE <<>>)
    \o <<EndElement("rule")>>

\* <if> or <try>, with a condition whose rule ra creates node a and a then
\* branch whose rule rb creates node b
BranchTrace(tag) ==
    <<StartElement(tag, NoAttrs), StartElement("condition", NoAttrs)>>
    \o RuleTrace("Main_ra", TRUE, <<>>,
          Empty("createNode", Attrs([id |-> "a", label |-> <<"a">>, mark |-> <<"0">>])))
    \o <<EndElement("condition"), StartElement("then", NoAttrs)>>
    \o RuleTrace("Main_rb", TRUE, <<>>,
          Empty("createNode", Attrs([id |-> "b", label |-> <<"b">>, mark |-> <<"0">>])))
    \o <<EndElement("then"), EndElement(tag)>>

\* the commands a program's Main is made of: the tokens of the command, the
\* tokens of the declarations it needs, what the traced run of it wrote to
\* the tracefile, and the graph items the run read and changed
Commands ==
    [ create |->
        [src   |-> <<Token("Identifier", "r1")>>, decl |-> <<>>,
         trace |-> RuleTrace("Main_r1", TRUE,
                     <<Characters>> \o Empty("node", Attrs([id |-> "n1"])),
                     Empty("createNode", Attrs([id |-> "n3", label |-> <<"a", ":", "b">>,
                                                mark |-> <<"1">>]))
                     \o Empty("createEdge", Attrs([id |-> "e2", source |-> "n1",
                                                   target |-> "n3", label |-> <<"d">>,
                                                   mark |-> <<"4">>]))),
         reads |-> {"n1", "n3", "e2"}, writes |-> {"n1", "n3", "e2"}],
      delete |->
        [src   |-> <<Token("Identifier", "r2")>>, decl |-> <<>>,
         trace |-> RuleTrace("Main_r2", TRUE,
                     Empty("edge", Attrs([id |-> "e1"])),
                     Empty("deleteEdge", Attrs([id |-> "e1", source |-> "n1", target |-> "n2",
                                                label |-> <<"c">>, mark |-> <<"0">>]))
                     \o Empty("deleteNode", Attrs([id |-> "n1", label |-> <<"a">>,
                                                   mark |-> <<"0">>, root |-> "true"]))),
         reads |-> {"n1", "e1"}, writes |-> {"n1", "e1"}],
      update |->
        [src   |-> <<Token("Identifier", "r3")>>, decl |-> <<>>,
         trace |-> RuleTrace("Main_r3", TRUE,
                     Empty("node", Attrs([id |-> "n2"])),
                     Empty("relabelNode", Attrs([id |-> "n2", old |-> <<"b">>,
                                                 new |-> <<"b", ":", "c">>]))
                     \o Empty("remarkNode", Attrs([id |-> "n2", old |-> <<"0">>,
                                                   new |-> <<"2">>]))
                     \o Empty("setRoot", Attrs([id |-> "n2"]))
                     \o Empty("relabelEdge", Attrs([id |-> "e1", old |-> <<"c">>,
                                                    new |-> <<>>]))
                     \o Empty("remarkEdge", Attrs([id |-> "e1", old |-> <<"0">>,
                                                   new |-> <<"3">>]))),
         reads |-> {"n2", "e1"}, writes |-> {"n2", "e1"}],
      unroot |->
        [src   |-> <<Token("Identifier", "r4")>>, decl |-> <<>>,
         trace |-> RuleTrace("Main_r4", TRUE,
                     Empty("node", Attrs([id |-> "n1"])),
                     Empty("removeRoot", Attrs([id |-> "n1"]))
                     \o Empty("relabelNode", Attrs([id |-> "n1", old |-> <<"a">>,
                                                    new |-> <<"a", ":", "c">>]))),
         reads |-> {"n1"}, writes |-> {"n1"}],
      skip |->
        [src   |-> <<Token("Keyword", "skip")>>, decl |-> <<>>,
         trace |-> <<Characters>> \o Empty("skip", NoAttrs),
         reads |-> {}, writes |-> {}],
      loop |->
        [src   |-> <<Token("Identifier", "r5"), Token("Repeat", "!")>>, decl |-> <<>>,
         trace |-> <<StartElement("loop", NoAttrs), StartElement("iteration", NoAttrs)>>
                   \o RuleTrace("Main_r5", FALSE, <<>>, <<>>)
                   \o <<EndElement("iteration"), EndElement("loop")>>,
         reads |-> {}, writes |-> {}],
      call |->
        [src   |-> <<Token("Declaration", "P")>>,
         decl  |-> <<Token("Declaration", "P"), Token("DeclarationOperator", "="),
                     Token("Identifier", "r7")>>,
         trace |-> <<StartElement("procedure", Attrs([name |-> "P"]))>>
                   \o RuleTrace("Main_r7", TRUE, <<>>, <<>>)
                   \o <<EndElement("procedure")>>,
         reads |-> {}, writes |-> {}],
      set |->
        [src   |-> <<Token("OpenBrace", "{"), Token("Identifier", "r5"),
                     Token("Separator", ","), Token("Identifier", "r7"),
                     Token("CloseBrace", "}")>>,
         decl  |-> <<>>,
         trace |-> <<StartElement("ruleset", NoAttrs)>>
                   \o RuleTrace("Main_r5", FALSE, <<>>, <<>>)
                   \o RuleTrace("Main_r7", TRUE, <<>>, <<>>)
                   \o <<EndElement("ruleset")>>,
         reads |-> {}, writes |-> {}],
      retry |->
        [src   |-> <<Token("Identifier", "r6"), Token("Repeat", "!")>>, decl |-> <<>>,
         trace |-> <<StartElement("loop", NoAttrs), StartElement("iteration", NoAttrs)>>
                   \o RuleTrace("Main_r6", TRUE, <<>>,
                         Empty("createNode", Attrs([id |-> "x", label |-> <<"a">>,
                                                    mark |-> <<"0">>])))
                   \o <<EndElement("iteration"), StartElement("iteration", NoAttrs)>>
                   \o RuleTrace("Main_r6", FALSE, <<>>, <<>>)
                   \o <<EndElement("iteration"), EndElement("loop")>>,
         reads |-> {"x"}, writes |-> {"x"}],
      ifthen |->
        [src   |-> <<Token("Keyword", "if"), Token("Identifier", "ra"),
                     Token("Keyword", "then"), Token("Identifier", "rb")>>,
         decl  |-> <<>>,
         trace |-> BranchTrace("if"),
         reads |-> {"a", "b"}, writes |-> {"a", "b"}],
      trythen |->
        [src   |-> <<Token("Keyword", "try"), Token("Identifier", "ra"),
                     Token("Keyword", "then"), Token("Identifier", "rb")>>,
         decl  |-> <<>>,
         trace |-> BranchTrace("try"),
         reads |-> {"a", "b"}, writes |-> {"a", "b"}] ]

\* the commands that make a program on their own
Scenarios == {"retry", "ifthen", "trythen"}

CommandNames == DOMAIN Commands

\* the sequences of at most MaxFrags commands in which no command uses a
\* graph item that an earlier command changed, and the scenarios alone
Mains ==
    { m \in UNION { [1..n -> CommandNames] : n \in 0..MaxFrags } :
        /\ \A i, j \in DOMAIN m :
              i < j => Commands[m[i]].writes \cap Commands[m[j]].reads = {}
        /\ \A i \in DOMAIN m : m[i] \in Scenarios => Len(m) = 1 }

RECURSIVE MainTokens(_, _)
\* the tokens of the commands from the i-th on, separated by ";"
MainTokens(m, i) ==
    IF i > Len(m) THEN <<>>
    ELSE Commands[m[i]].src
         \o (IF i < Len(m) THEN <<Token("Separator", ";")>> ELSE <<>>)
         \o MainTokens(m, i + 1)

RECURSIVE Declarations(_, _)
Declarations(m, i) ==
    IF i > Len(m) THEN <<>>
    ELSE (IF \E j \in 1..(i-1) : m[j] = m[i] THEN <<>> ELSE Commands[m[i]].decl)
         \o Declarations(m, i + 1)

\* the editor's tokens of  Main = c1; c2  and the declarations after it
ProgramTokens(m) ==
    <<Token("Declaration", "Main"), Token("DeclarationOperator", "=")>>
    \o MainTokens(m, 1) \o Declarations(m, 1)

RECURSIVE TraceBody(_, _)
TraceBody(m, i) == IF i > Len(m) THEN <<>> ELSE Commands[m[i]].trace \o TraceBody(m, i + 1)

\* the tracefiles of a run of m: the whole file, and the files that stop
\* after k tokens, in or after the trace of the last command, where the
\* writer was killed (the document ends early) or, for the programs of at
\* most one command, wrote text that is not well-formed XML
Tracefiles(m) ==
    LET body == TraceBody(m, 1)
        last == IF Len(m) = 0 THEN 0 ELSE Len(Commands[m[Len(m)]].trace)
    IN  { body \o <<EndElement("trace"), EndDocument>> }
        \cup { SubSeq(body, 1, k) \o <<Invalid(e)>> :
                  k \in (Len(body) - last)..Len(body),
                  e \in {"PrematureEndOfDocumentError"}
                         \cup (IF Len(m) <= 1 THEN {"NotWellFormedError"} ELSE {}) }

-----------------------------------------------------------------------------
(* The runner as a state machine *)

\* the runner's fields as one record
Cur ==
    [graph |-> graph, emphasise |-> emphasise, rd |-> rd, initialised |-> initialised,
     parseComplete |-> parseComplete, traceSteps |-> traceSteps,
     currentStep |-> currentStep, tokenStack |-> tokenStack,
     contextStack |-> contextStack, ub |-> FALSE, ret |-> ret]

\* the member initialisers of the constructor; stale is the emphasis a
\* previous run of the same program left on the tokens
Members(g, stale) ==
    [graph |-> g, emphasise |-> stale, rd |-> ReaderAtRoot, initialised |-> FALSE,
     parseComplete |-> FALSE, traceSteps |-> <<>>, currentStep |-> -1,
     tokenStack |-> <<>>, contextStack |-> <<>>, ub |-> FALSE, ret |-> FALSE]

\* the constructor after its call of parseStep
firstStep(s) ==
    IF ~s.ret THEN s
    ELSE updateProgramPosition([s EXCEPT !.currentStep = 0, !.initialised = TRUE], FALSE)

\* TraceRunner::TraceRunner(traceFile, graph, programTokens), for a file
\* whose root element is named rootName; .ret is the variable success
TraceRunner(rootName, g, stale) ==
    IF rootName /= "trace" THEN Members(g, stale)
    ELSE firstStep(parseStep(removeHighlights(Members(g, stale))))

\* the variables after a call that left the runner as r
Becomes(r, op) ==
    /\ Len(r.tokenStack) <= MaxTokenStack
    /\ graph' = r.graph
    /\ emphasise' = r.emphasise
    /\ rd' = r.rd
    /\ initialised' = r.initialised
    /\ parseComplete' = r.parseComplete
    /\ traceSteps' = r.traceSteps
    /\ currentStep' = r.currentStep
    /\ tokenStack' = r.tokenStack
    /\ contextStack' = r.contextStack
    /\ ret' = r.ret
    /\ ub' = r.ub
    /\ aborted' \in (IF r.ub THEN BOOLEAN ELSE {FALSE})
    /\ lastOp' = op
    /\ roundTrip' = CASE op = "goToEnd" /\ roundTrip = "constructed" -> "atEnd"
                      [] op = "goToStart" /\ roundTrip = "atEnd" -> "backAtStart"
                      [] OTHER -> "left"
    /\ UNCHANGED <<programTokens, xml, inputGraph, parser>>

\* a runner that can be called: constructed, and not past undefined behaviour
Usable == isInitialised(Cur) /\ ~ub /\ ~aborted

\* the variables after the constructor left the runner as r
Constructed(r) ==
    /\ graph = r.graph
    /\ emphasise = r.emphasise
    /\ rd = r.rd
    /\ initialised = r.initialised
    /\ parseComplete = r.parseComplete
    /\ traceSteps = r.traceSteps
    /\ currentStep = r.currentStep
    /\ tokenStack = r.tokenStack
    /\ contextStack = r.contextStack
    /\ ret = r.ret
    /\ ub = r.ub
    /\ aborted \in (IF r.ub THEN BOOLEAN ELSE {FALSE})

Init ==
    \E m \in Mains :
      \E file \in Tracefiles(m), rootName \in {"trace", "graph"}, staleAt \in {0, 3} :
        /\ programTokens = ProgramTokens(m)
        /\ xml = file
        /\ inputGraph = InputGraph
        /\ (rootName = "graph" => Len(m) = 0 /\ Len(file) = 2)
        /\ Constructed(TraceRunner(rootName, InputGraph,
                                   [i \in 1..Len(ProgramTokens(m)) |-> i = staleAt]))
        /\ lastOp = "TraceRunner"
        /\ roundTrip = "constructed"
        /\ parser = NoParser

\* the step forward button, enabled when a forward step is available
StepForward ==
    /\ Usable /\ isForwardStepAvailable(Cur)
    /\ Becomes(stepForward(Cur), "stepForward")

\* the step back button, enabled when a backward step is available
StepBackward ==
    /\ Usable /\ isBackwardStepAvailable(Cur)
    /\ Becomes(stepBackward(Cur), "stepBackward")

GoToEnd ==
    /\ Usable
    /\ Becomes(goToEnd(Cur), "goToEnd")

GoToStart ==
    /\ Usable
    /\ Becomes(goToStart(Cur), "goToStart")

\* stepForward() called by a client that did not ask isForwardStepAvailable()
StepForwardAtEnd ==
    /\ Usable /\ ~isForwardStepAvailable(Cur)
    /\ Becomes(stepForward(Cur), "stepForward")

\* stepBackward() called by a client that did not ask isBackwardStepAvailable()
StepBackwardAtStart ==
    /\ Usable /\ ~isBackwardStepAvailable(Cur)
    /\ Becomes(stepBackward(Cur), "stepBackward")

Next ==
    \/ StepForward
    \/ StepBackward
    \/ GoToEnd
    \/ GoToStart
    \/ StepForwardAtEnd
    \/ StepBackwardAtStart

Spec == Init /\ [][Next]_vars

-----------------------------------------------------------------------------
(* Properties *)

\* the tracefile was written to its end
WholeFile == xml[Len(xml)].tt = "EndDocument"

forwardAvailable == isForwardStepAvailable(Cur)

backwardAvailable == isBackwardStepAvailable(Cur)

\* stepForward() called now would call parseStep()
mustParse == ~parseComplete /\ Len(traceSteps) <= currentStep + 1

\* C1 (round-trip equivalence): after goToEnd() followed by goToStart(),
\* called right after construction, the host graph (node and edge ids,
\* endpoints, labels, marks, root flags) equals the graph the constructor
\* was given.  Stated for the tracefiles that are whole.
RoundTripEquivalence ==
    (Usable /\ WholeFile /\ roundTrip = "backAtStart") => graph = inputGraph

\* C2 (step symmetry): at every cursor position k > 0 with a forward step
\* available and a step at the cursor, stepForward() followed by
\* stepBackward() leaves the graph, the context stack and the token stack
\* as they were.  Stated for the tracefiles that are whole.
StepSymmetry ==
    (Usable /\ WholeFile /\ currentStep > 0 /\ isForwardStepAvailable(Cur) /\ inSteps(Cur, currentStep))
        => /\ ~stepBackward(stepForward(Cur)).ub
           /\ stepBackward(stepForward(Cur)).graph = graph
           /\ stepBackward(stepForward(Cur)).contextStack = contextStack
           /\ stepBackward(stepForward(Cur)).tokenStack = tokenStack

\* C3 (context balance): whenever the cursor is 0 or len(steps), the context
\* stack is empty.  Stated for the tracefiles that are whole.
ContextBalance ==
    (Usable /\ WholeFile /\ (currentStep = 0 \/ currentStep = Len(traceSteps))) => contextStack = <<>>

\* C4 (at most one highlight): after construction and after every call, a
\* token that is emphasised is the token of the top frame of the token
\* stack, so at most one token is emphasised.
AtMostOneHighlight ==
    Usable => \A i \in DOMAIN emphasise :
                  emphasise[i] => (tokenStack /= <<>> /\ top(tokenStack).token + 1 = i)

\* a procedure's declaration was pushed over the call and is the one
\* emphasised token
AtMostOneHighlightWitness ==
    /\ Usable
    /\ Len(tokenStack) >= 2
    /\ top(tokenStack).token /= top(pop(tokenStack)).token
    /\ emphasise[top(tokenStack).token + 1]

\* C5 (availability monotonicity): isForwardStepAvailable() changes from
\* false to true only by stepBackward() (alone or in goToStart()), so a
\* forward traversal sees it change from true to false at most once.
AvailabilityMonotonicity ==
    [][(~forwardAvailable /\ forwardAvailable' /\ ~ub')
          => lastOp' \in {"stepBackward", "goToStart"}]_vars

\* a step back from the end of a trace that was parsed to its end
AvailabilityMonotonicityWitness ==
    /\ Usable
    /\ lastOp = "stepBackward"
    /\ parseComplete
    /\ currentStep = Len(traceSteps) - 1
    /\ forwardAvailable

\* C6 (availability): isForwardStepAvailable() is false exactly when the
\* cursor is at or past the end of the steps and the parse is complete;
\* isBackwardStepAvailable() is true exactly when the cursor is above 0.
AvailabilityDefinitions ==
    ~ub => /\ forwardAvailable = ~(currentStep >= Len(traceSteps) /\ parseComplete)
           /\ backwardAvailable = (currentStep > 0)

\* the end of a trace of at least one step: back is available, forward is not
AvailabilityDefinitionsWitness ==
    /\ Usable
    /\ currentStep > 0
    /\ currentStep = Len(traceSteps)
    /\ parseComplete
    /\ ~forwardAvailable
    /\ backwardAvailable

\* C7 (find/apply availability): isFindMatchAvailable() is true exactly when
\* the cursor is within the steps and the step there is a RULE_MATCH or
\* RULE_MATCH_FAILED, isMatchApplicationAvailable() exactly when it is a
\* RULE_APPLICATION, and neither reads _traceSteps outside the vector.
MatchPredicatesInBounds ==
    Usable =>
        /\ ~isFindMatchAvailable(Cur).ub
        /\ ~isMatchApplicationAvailable(Cur).ub
        /\ isFindMatchAvailable(Cur).value =
              (inSteps(Cur, currentStep)
               /\ stepAt(Cur, currentStep).type \in {"RULE_MATCH", "RULE_MATCH_FAILED"})
        /\ isMatchApplicationAvailable(Cur).value =
              (inSteps(Cur, currentStep)
               /\ stepAt(Cur, currentStep).type = "RULE_APPLICATION")

\* C8 (boundary error): stepForward() called when no forward step is
\* available, and stepBackward() called at cursor 0, return false, leave the
\* cursor, the graph and the context stack as they were and read nothing
\* outside the steps.
BoundaryError ==
    [][(Usable /\ (\/ ~forwardAvailable /\ lastOp' = "stepForward"
                   \/ currentStep = 0 /\ lastOp' = "stepBackward"))
          => /\ ~ub'
             /\ ret' = FALSE
             /\ currentStep' = currentStep
             /\ graph' = graph
             /\ contextStack' = contextStack]_vars

\* C9 (parse error): a stepForward() that has to parse the next step of a
\* tracefile that is not well-formed, and so leaves the reader in that
\* error, returns false; so does a goToEnd() that reaches the error.
ParseErrorReported ==
    [][(/\ Usable /\ ~ub'
        /\ \/ lastOp' = "stepForward" /\ mustParse
           \/ lastOp' = "goToEnd" /\ ~parseComplete
        /\ xmlError(rd') = "NotWellFormedError")
          => ret' = FALSE]_vars

\* C10 (premature end): a stepForward() that has to parse the next step and
\* finds that the document ends early returns true and marks the parse
\* complete, wherever in the file the end is.
PrematureEndAccepted ==
    [][(/\ Usable /\ ~ub'
        /\ lastOp' = "stepForward" /\ mustParse
        /\ xmlError(rd) = "NoError"
        /\ xmlError(rd') = "PrematureEndOfDocumentError")
          => (ret' = TRUE /\ parseComplete')]_vars

\* C11 (backward motion): whenever isBackwardStepAvailable() holds, a call of
\* stepBackward() returns true without undefined behaviour, does not read
\* from the tracefile, leaves the step vector (length and contents) and
\* _parseComplete unchanged, and decrements the cursor by exactly one.
BackwardNeverFails ==
    [][(Usable /\ backwardAvailable /\ lastOp' = "stepBackward")
          => /\ ~ub'
             /\ ret' = TRUE
             /\ rd' = rd
             /\ parseComplete' = parseComplete
             /\ traceSteps' = traceSteps
             /\ currentStep' = currentStep - 1]_vars

\* a stepBackward() over a rule application, before the trace was read to its end
BackwardNeverFailsWitness ==
    /\ Usable /\ lastOp = "stepBackward" /\ ret = TRUE /\ ~parseComplete
    /\ inSteps(Cur, currentStep)
    /\ stepAt(Cur, currentStep).type = "RULE_APPLICATION"

\* C12 (construction): right after the constructor, if it returned early
\* (root element not <trace>) or its parse of the first step failed then
\* isInitialised() is false, and if isInitialised() is true then the cursor
\* is 0 and step 0 is in the step vector, also for a trace without steps.
ConstructionPostcondition ==
    (lastOp = "TraceRunner" /\ ~aborted)
        => /\ ~ret => ~isInitialised(Cur)
           /\ isInitialised(Cur) => (currentStep = 0 /\ inSteps(Cur, 0))

\* C13 (jumps): goToEnd() and goToStart() return without undefined
\* behaviour; a goToEnd() that returns true leaves the cursor at the length
\* of the step vector with the parse complete, one that returns false
\* stopped at the step whose parse failed; goToStart() returns true and
\* leaves the cursor at 0.
JumpPostconditions ==
    [][/\ (Usable /\ lastOp' = "goToEnd")
            => /\ ~ub'
               /\ ret' => (currentStep' = Len(traceSteps') /\ parseComplete')
               /\ ~ret' => (currentStep' = Len(traceSteps') /\ ~parseComplete'
                             /\ hasError(rd'))
       /\ (Usable /\ lastOp' = "goToStart")
            => (~ub' /\ ret' /\ currentStep' = 0)]_vars

\* the program is the one command c
Runs(c) == programTokens = ProgramTokens(<<c>>)

\* the cursor is at the end of a trace that was read to its end
AtEndOfTrace == Usable /\ WholeFile /\ parseComplete /\ currentStep = Len(traceSteps)

\* C14 (loop failure restore): for the trace of r6! whose first iteration
\* creates node x and whose second iteration fails to match, at the end of
\* the trace (after goToEnd()) node x is not in the graph.
LoopFailureRestore == (AtEndOfTrace /\ Runs("retry")) => ~hasNode(graph, "x")

\* C15 (if/then reverts the condition): for the trace of  if ra then rb,
\* where ra creates node a and rb creates node b, at the end of the trace
\* (after goToEnd()) b is in the graph and a is not.
IfThenRevertsCondition ==
    (AtEndOfTrace /\ Runs("ifthen")) => (hasNode(graph, "b") /\ ~hasNode(graph, "a"))

\* C16 (try/then keeps the condition's changes): for the trace of
\* try ra then rb, node a is still in the graph inside the then branch, and
\* at the end of the trace (after goToEnd()) both a and b are in the graph.
TryThenKeepsCondition ==
    (Usable /\ WholeFile /\ Runs("trythen"))
        => /\ (\E i \in DOMAIN contextStack : contextStack[i] = "THEN_BRANCH")
                  => hasNode(graph, "a")
           /\ AtEndOfTrace => (hasNode(graph, "a") /\ hasNode(graph, "b"))

\* the end of the trace of  try ra then rb, reached by goToEnd()
TryThenKeepsConditionWitness ==
    AtEndOfTrace /\ Runs("trythen") /\ lastOp = "goToEnd" /\ ret = TRUE

RECURSIVE AppliedInOrder(_, _, _)
\* the graph g after the first n changes were applied, first to last
AppliedInOrder(g, changes, n) ==
    IF n = 0 THEN g ELSE applyChange(AppliedInOrder(g, changes, n - 1), changes[n]).graph

RECURSIVE RevertedInReverse(_, _, _)
\* the graph g after the changes from the i-th on were reverted, last to first
RevertedInReverse(g, changes, i) ==
    IF i > Len(changes) THEN g
    ELSE revertChange(RevertedInReverse(g, changes, i + 1), changes[i]).graph

\* the rule application the cursor is at, or <<>>
ChangesAhead ==
    IF inSteps(Cur, currentStep) /\ stepAt(Cur, currentStep).type = "RULE_APPLICATION"
    THEN stepAt(Cur, currentStep).graphChanges ELSE <<>>

\* the rule application just before the cursor, or <<>>
ChangesBehind ==
    IF inSteps(Cur, currentStep - 1) /\ stepAt(Cur, currentStep - 1).type = "RULE_APPLICATION"
    THEN stepAt(Cur, currentStep - 1).graphChanges ELSE <<>>

\* C19 (order of changes): stepping forward over a rule application applies
\* its changes first to last, and stepping backward over it reverts them
\* last to first; a node created before an edge is removed after the edge.
ChangesInListOrder ==
    [][/\ (Usable /\ ChangesAhead /= <<>> /\ lastOp' = "stepForward" /\ ~ub')
            => graph' = AppliedInOrder(graph, ChangesAhead, Len(ChangesAhead))
       /\ (Usable /\ ChangesBehind /= <<>> /\ lastOp' = "stepBackward" /\ ~ub')
            => graph' = RevertedInReverse(graph, ChangesBehind, 1)]_vars

\* a step back over the rule application that created node n3 and then
\* edge e2 to it: both are gone
ChangesInListOrderWitness ==
    /\ Usable /\ lastOp = "stepBackward" /\ Len(ChangesAhead) = 2
    /\ ChangesAhead[1].type = "ADD_NODE" /\ ChangesAhead[2].type = "ADD_EDGE"
    /\ ~hasNode(graph, "n3") /\ ~hasEdge(graph, "e2")

-----------------------------------------------------------------------------
(* applyCurrentStepChanges and revertCurrentStepChanges on one GraphChange *)

\* the label_t values and the flags the changes are drawn from
ChangeLabels ==
    [mark : {"none", "red"}, values : {<<<<"a">>>>, <<<<"a">>, <<"b">>>>}]

\* the host graphs the changes are applied to: node n1 with any label, mark
\* and root flag, node n2, and no edge or an edge e1 from n1 to n2
ChangeGraphs ==
    { [nodes |-> ("n1" :> [label |-> ListToString(l.values), mark |-> l.mark,
                           isRoot |-> root, pos |-> 1])
              @@ ("n2" :> [label |-> <<"b">>, mark |-> "none", isRoot |-> FALSE, pos |-> 2]),
       edges |-> es] :
        l \in ChangeLabels, root \in BOOLEAN,
        es \in {<<>>} \cup { ("e1" :> [from |-> "n1", to |-> "n2",
                                        label |-> ListToString(k.values), mark |-> k.mark]) :
                               k \in ChangeLabels } }

\* the label_t of a node or edge of the graph whose values are v
LabelOf(item, v) == [mark |-> item.mark, values |-> v]

\* the GraphChange records that are consistent with graph g: what they add
\* is not in g, what they delete or change is in g as existingItem has it
ChangeRecords(g) ==
    LET n1 == g.nodes["n1"]
        valuesOf(item) == { v \in {<<<<"a">>>>, <<<<"a">>, <<"b">>>>} :
                               ListToString(v) = item.label }
        ch(t, e, n) == [type |-> t, existingItem |-> e, newItem |-> n]
        node1(l, root) == [NoItem EXCEPT !.id = "n1", !.label = l, !.isRoot = root]
        edge1(l) == [NoItem EXCEPT !.id = "e1", !.from = "n1", !.to = "n2", !.label = l]
    IN  { ch("ADD_NODE", NoItem, [NoItem EXCEPT !.id = "n3", !.label = l, !.isRoot = root]) :
              l \in ChangeLabels, root \in BOOLEAN }
        \cup { ch("ADD_EDGE", NoItem, [NoItem EXCEPT !.id = "e2", !.from = "n2", !.to = "n1",
                                                     !.label = l]) : l \in ChangeLabels }
        \cup { ch("DELETE_NODE", node1(LabelOf(n1, v), n1.isRoot), NoItem) :
                  v \in IF g.edges = <<>> THEN valuesOf(n1) ELSE {} }
        \cup { ch("RELABEL_NODE", node1(LabelOf(n1, v), FALSE), node1(l, FALSE)) :
                  v \in valuesOf(n1), l \in ChangeLabels }
        \cup { ch("REMARK_NODE", node1(LabelOf(n1, v), FALSE), node1(l, FALSE)) :
                  v \in valuesOf(n1), l \in ChangeLabels }
        \cup { ch("SET_ROOT", node1(NoItem.label, FALSE), node1(NoItem.label, TRUE)) :
                  x \in IF n1.isRoot THEN {} ELSE {1} }
        \cup { ch("REMOVE_ROOT", node1(NoItem.label, TRUE), node1(NoItem.label, FALSE)) :
                  x \in IF n1.isRoot THEN {1} ELSE {} }
        \cup { ch(t, edge1(LabelOf(g.edges["e1"], v)), IF t = "DELETE_EDGE" THEN NoItem
                                                        ELSE edge1(l)) :
                  t \in IF g.edges = <<>> THEN {}
                        ELSE {"DELETE_EDGE", "RELABEL_EDGE", "REMARK_EDGE"},
                  v \in IF g.edges = <<>> THEN {} ELSE valuesOf(g.edges["e1"]),
                  l \in ChangeLabels }

\* a runner whose cursor is at a rule application with the one change c
InitChanges ==
    \E g \in ChangeGraphs : \E c \in ChangeRecords(g) :
        /\ programTokens = <<>> /\ emphasise = <<>>
        /\ xml = <<EndElement("trace"), EndDocument>>
        /\ rd = ReaderAtRoot
        /\ initialised = TRUE /\ parseComplete = FALSE
        /\ traceSteps = <<[NewStep EXCEPT !.type = "RULE_APPLICATION",
                                           !.graphChanges = <<c>>]>>
        /\ currentStep = 0
        /\ tokenStack = <<>> /\ contextStack = <<>>
        /\ graph = g /\ inputGraph = g
        /\ ub = FALSE /\ aborted = FALSE /\ ret = TRUE
        /\ lastOp = "TraceRunner" /\ roundTrip = "constructed"
        /\ parser = NoParser

\* applyCurrentStepChanges() as stepForward() calls it
ApplyCurrentStepChanges ==
    /\ Usable /\ lastOp /= "applyCurrentStepChanges"
    /\ Becomes(applyCurrentStepChanges(Cur), "applyCurrentStepChanges")

\* revertCurrentStepChanges() as stepBackward() calls it
RevertCurrentStepChanges ==
    /\ Usable /\ lastOp = "applyCurrentStepChanges"
    /\ Becomes(revertCurrentStepChanges(Cur), "revertCurrentStepChanges")

NextChanges == ApplyCurrentStepChanges \/ RevertCurrentStepChanges

SpecChanges == InitChanges /\ [][NextChanges]_vars

\* the change of the step and the item it is about
TheChange == traceSteps[1].graphChanges[1]

\* C20 (forward and reverse effects): for every kind of GraphChange, on a
\* graph consistent with the record, the forward effect is the one of the
\* kind (add creates the item, delete removes it, relabel and remark set the
\* new label or mark, setRoot and removeRoot set the root flag to true and
\* false) and the reverse effect after it gives the graph back as it was.
ReverseUndoesForward ==
    LET c == TheChange
        t == c.type
        new == c.newItem
        old == c.existingItem
    IN  /\ ~ub
        /\ lastOp = "revertCurrentStepChanges" => graph = inputGraph
        /\ lastOp = "applyCurrentStepChanges" =>
              CASE t = "ADD_NODE" ->
                     /\ hasNode(graph, new.id)
                     /\ graph.nodes[new.id].label = ListToString(new.label.values)
                     /\ graph.nodes[new.id].mark = new.label.mark
                     /\ graph.nodes[new.id].isRoot = new.isRoot
                [] t = "ADD_EDGE" ->
                     /\ hasEdge(graph, new.id)
                     /\ graph.edges[new.id].from = new.from
                     /\ graph.edges[new.id].to = new.to
                     /\ graph.edges[new.id].label = ListToString(new.label.values)
                     /\ graph.edges[new.id].mark = new.label.mark
                [] t = "DELETE_NODE" -> ~hasNode(graph, old.id)
                [] t = "DELETE_EDGE" -> ~hasEdge(graph, old.id)
                [] t = "RELABEL_NODE" ->
                     graph.nodes[new.id].label = ListToString(new.label.values)
                [] t = "RELABEL_EDGE" ->
                     graph.edges[new.id].label = ListToString(new.label.values)
                [] t = "REMARK_NODE" -> graph.nodes[new.id].mark = new.label.mark
                [] t = "REMARK_EDGE" -> graph.edges[new.id].mark = new.label.mark
                [] t = "SET_ROOT" -> graph.nodes[new.id].isRoot = TRUE
                [] t = "REMOVE_ROOT" -> graph.nodes[new.id].isRoot = FALSE

\* a root node deleted and created again as a root
ReverseUndoesForwardWitness ==
    /\ lastOp = "revertCurrentStepChanges" /\ TheChange.type = "DELETE_NODE"
    /\ TheChange.existingItem.isRoot /\ hasNode(graph, "n1") /\ graph.nodes["n1"].isRoot

-----------------------------------------------------------------------------
(* TraceHighlighter. A highlighter h has the fields emphasise, tokenStack,  *)
(* traceSteps (the steps that update is given pointers into), currentStep   *)
(* (the position of the step _currentStep points to; a position outside     *)
(* traceSteps is the null pointer) and ub. Its replaceCurrentHighlight,     *)
(* pushHighlight and popHighlight are those of TraceRunner line for line.   *)

\* TraceHighlighter::clearHighlights()
clearHighlights(h) == [h EXCEPT !.emphasise = [i \in DOMAIN @ |-> FALSE]]

inTokens(searchPos) == searchPos >= 0 /\ searchPos < Len(programTokens)

\* searchPos += (searchDirection == FORWARDS) ? 1 : -1
moved(searchPos, searchDirection) ==
    IF searchDirection = "FORWARDS" THEN searchPos + 1 ELSE searchPos - 1

isKeyword(searchPos, text) ==
    tokenAt(searchPos).lexeme = "Keyword" /\ tokenAt(searchPos).text = text

\* foundToken.token = token; foundToken.index = searchPos;
\* replaceCurrentHighlight(foundToken)
highlightFound(h, searchPos) == replaceCurrentHighlight(h, TokenReference(searchPos))

\* the dummy token pushed when no declaration follows the procedure's
dummyAtEnd(h) ==
    pushHighlight(h, [token |-> Len(programTokens) - 1, index |-> Len(programTokens)])

RECURSIVE declarationSearch(_, _, _, _, _)
\* the loop that looks for the declaration of the procedure of step current
\* from the start of the program, and what follows the loop
declarationSearch(h, current, searchDirection, searchPos, lookingForNext) ==
    IF ~(searchPos < Len(programTokens))
    THEN (IF lookingForNext THEN dummyAtEnd(h) ELSE h)
    ELSE IF /\ tokenAt(searchPos).lexeme = "Declaration"
            /\ (tokenAt(searchPos).text = current.contextName \/ lookingForNext)
    THEN IF ~inTokens(searchPos + 1) THEN [h EXCEPT !.ub = TRUE]
         ELSE IF tokenAt(searchPos + 1).lexeme = "DeclarationOperator"
         THEN IF (searchDirection = "FORWARDS" /\ ~current.endOfContext) \/ lookingForNext
              THEN pushHighlight(h, TokenReference(searchPos))
              ELSE declarationSearch(h, current, searchDirection, searchPos + 1,
                                     searchDirection = "BACKWARDS" /\ current.endOfContext)
         ELSE declarationSearch(h, current, searchDirection, searchPos + 1, lookingForNext)
    ELSE declarationSearch(h, current, searchDirection, searchPos + 1, lookingForNext)

\* update, its first part: when _currentStep is a procedure step, the
\* highlight moves to the procedure's declaration
procedureDeclaration(h, searchDirection) ==
    IF inSteps(h, h.currentStep) /\ stepAt(h, h.currentStep).type = "PROCEDURE"
    THEN declarationSearch(h, stepAt(h, h.currentStep), searchDirection, 0, FALSE)
    ELSE h

\* where update starts its search
searchStart(h, searchDirection) ==
    IF h.tokenStack = <<>>
    THEN (IF searchDirection = "FORWARDS" THEN 0 ELSE Len(programTokens) - 1)
    ELSE moved(top(h.tokenStack).index, searchDirection)

\* update, when no step was given: the highlights are cleared and the top of
\* the stack gives way to a dummy token one index further
noNextStep(h) ==
    IF h.tokenStack = <<>> THEN [clearHighlights(h) EXCEPT !.ub = TRUE]
    ELSE [clearHighlights(h) EXCEPT
              !.tokenStack = Append(pop(@), [token |-> top(@).token,
                                             index |-> top(@).index + 1])]

\* case RULE with the search at the other end of the context
ruleStepAtEnds(h, next, searchDirection, searchPos) ==
    IF (searchDirection = "FORWARDS") /= stepAt(h, next).endOfContext THEN h
    ELSE replaceFound(
             [h EXCEPT !.traceSteps[next + 1].contextName = RemoveMain(@)],
             findToken(searchPos, searchDirection = "BACKWARDS", "Identifier", TRUE,
                       RemoveMain(stepAt(h, next).contextName)))

\* case RULE
ruleStep(h, next, searchDirection, searchPos) ==
    IF (searchDirection = "FORWARDS") = stepAt(h, next).endOfContext THEN h
    ELSE replaceFound(
             [h EXCEPT !.traceSteps[next + 1].contextName = RemoveMain(@)],
             findToken(searchPos, searchDirection = "BACKWARDS", "Identifier", TRUE,
                       RemoveMain(stepAt(h, next).contextName)))

\* case RULE_SET
ruleSetStep(h, next, searchDirection, searchPos) ==
    replaceFound(h, findToken(searchPos, searchDirection = "BACKWARDS",
                              IF stepAt(h, next).endOfContext THEN "CloseBrace"
                                                              ELSE "OpenBrace",
                              FALSE, ""))

\* case LOOP
loopStep(h, next, searchDirection, searchPos) ==
    IF searchDirection = "FORWARDS" /\ ~stepAt(h, next).endOfContext
    THEN (IF inTokens(searchPos) THEN highlightFound(h, searchPos)
                                 ELSE [h EXCEPT !.ub = TRUE])
    ELSE IF stepAt(h, next).endOfContext
    THEN replaceFound(h, findToken(searchPos, searchDirection = "BACKWARDS", "Repeat",
                                   FALSE, ""))
    ELSE h

\* case LOOP_ITERATION, the end of an iteration that is the boundary of the loop
loopBoundaryStep(h) ==
    IF h.tokenStack = <<>> THEN [h EXCEPT !.ub = TRUE]
    ELSE replaceCurrentHighlight(popHighlight(h), top(h.tokenStack))

\* case LOOP_ITERATION
loopIterationStep(h, next, searchDirection) ==
    IF (searchDirection = "FORWARDS") /= stepAt(h, next).endOfContext
    THEN (IF h.tokenStack = <<>> THEN [h EXCEPT !.ub = TRUE]
          ELSE pushHighlight(h, top(h.tokenStack)))
    ELSE IF ~stepAt(h, next).loopBoundary THEN popHighlight(h)
    ELSE loopBoundaryStep(h)

\* case PROCEDURE without the return to the call site
procedureStepSearching(h, next, searchDirection, searchPos) ==
    replaceFound(h, findToken(searchPos, searchDirection = "BACKWARDS", "Declaration",
                              TRUE, stepAt(h, next).contextName))

\* case PROCEDURE
procedureStep(h, next, searchDirection, searchPos) ==
    IF (searchDirection = "FORWARDS") = stepAt(h, next).endOfContext
    THEN popHighlight(h)
    ELSE replaceFound(h, findToken(searchPos, searchDirection = "BACKWARDS",
                                   "Declaration", TRUE, stepAt(h, next).contextName))

\* case IF_CONTEXT, case TRY_CONTEXT
branchStep(h, next, searchDirection, searchPos) ==
    IF stepAt(h, next).endOfContext THEN h
    ELSE replaceFound(h, findToken(searchPos, searchDirection = "BACKWARDS", "Keyword",
                                   TRUE, IF stepAt(h, next).type = "IF_CONTEXT"
                                         THEN "if" ELSE "try"))

\* what a token adds to the count of unclosed parentheses of a search
nesting(searchPos, searchDirection) ==
    CASE tokenAt(searchPos).lexeme = "OpenParen" ->
             (IF searchDirection = "FORWARDS" THEN 1 ELSE -1)
      [] tokenAt(searchPos).lexeme = "CloseParen" ->
             (IF searchDirection = "FORWARDS" THEN -1 ELSE 1)
      [] OTHER -> 0

\* nextStep->virtualStep = true
markedVirtual(h, next) == [h EXCEPT !.traceSteps[next + 1].virtualStep = TRUE]

RECURSIVE keywordOutsideParens(_, _, _, _, _)
\* the loops that look for a keyword outside of any parentheses met on the way
keywordOutsideParens(h, searchPos, searchDirection, text, unclosedParens) ==
    IF ~inTokens(searchPos) THEN h
    ELSE IF unclosedParens + nesting(searchPos, searchDirection) = 0
            /\ isKeyword(searchPos, text)
    THEN highlightFound(h, searchPos)
    ELSE keywordOutsideParens(h, moved(searchPos, searchDirection), searchDirection, text,
                              unclosedParens + nesting(searchPos, searchDirection))

\* case BRANCH_CONDITION
branchConditionStep(h, next, searchDirection, searchPos) ==
    IF searchDirection = "BACKWARDS" /\ stepAt(h, next).endOfContext
    THEN IF ~inSteps(h, h.currentStep) THEN [h EXCEPT !.ub = TRUE]
         ELSE IF stepAt(h, h.currentStep).type = "ELSE_BRANCH"
         THEN keywordOutsideParens(h, searchPos, searchDirection, "then", 0)
         ELSE h
    ELSE h

\* case THEN_BRANCH, the end of the else block found
afterElseBlock(h, searchPos, foundParens) ==
    IF foundParens THEN highlightFound(h, searchPos)
    ELSE IF searchPos < Len(programTokens) - 1 THEN highlightFound(h, searchPos + 1)
    ELSE h

RECURSIVE thenEndForwards(_, _, _, _, _)
\* case THEN_BRANCH, the loop at the end of the context, searching forwards
thenEndForwards(h, searchPos, foundElse, foundParens, unclosedParens) ==
    IF ~inTokens(searchPos) THEN h
    ELSE IF isKeyword(searchPos, "else")
    THEN thenEndForwards(h, searchPos + 1, TRUE, foundParens, unclosedParens)
    ELSE IF ~foundElse THEN highlightFound(h, searchPos)
    ELSE IF unclosedParens + nesting(searchPos, "FORWARDS") = 0
    THEN afterElseBlock(h, searchPos,
                        foundParens \/ tokenAt(searchPos).lexeme = "OpenParen")
    ELSE thenEndForwards(h, searchPos + 1, foundElse,
                         foundParens \/ tokenAt(searchPos).lexeme = "OpenParen",
                         unclosedParens + nesting(searchPos, "FORWARDS"))

RECURSIVE thenEndBackwards(_, _, _, _)
\* case THEN_BRANCH, the loop at the end of the context, searching backwards;
\* endOfBlock is the index of the first token looked at, -1 before it
thenEndBackwards(h, searchPos, unclosedParens, endOfBlock) ==
    IF ~inTokens(searchPos) THEN h
    ELSE IF unclosedParens + nesting(searchPos, "BACKWARDS") = 0
            /\ isKeyword(searchPos, "else")
    THEN highlightFound(h, searchPos)
    ELSE IF unclosedParens + nesting(searchPos, "BACKWARDS") = 0
            /\ isKeyword(searchPos, "then")
    THEN highlightFound(h, IF endOfBlock = -1 THEN searchPos ELSE endOfBlock)
    ELSE thenEndBackwards(h, searchPos - 1,
                          unclosedParens + nesting(searchPos, "BACKWARDS"),
                          IF endOfBlock = -1 THEN searchPos ELSE endOfBlock)

\* case THEN_BRANCH
thenStep(h, next, searchDirection, searchPos) ==
    IF ~stepAt(h, next).endOfContext
    THEN replaceFound(h, findToken(searchPos, searchDirection = "BACKWARDS", "Keyword",
                                   TRUE, "then"))
    ELSE IF searchDirection = "FORWARDS"
    THEN thenEndForwards(h, searchPos, FALSE, FALSE, 0)
    ELSE thenEndBackwards(h, searchPos, 0, -1)

\* case ELSE_BRANCH, the end of the then block found at searchPos
afterThenBlock(h, next, searchPos) ==
    IF searchPos < Len(programTokens) - 1
    THEN (IF isKeyword(searchPos + 1, "else")
          THEN highlightFound(h, searchPos + 1)
          ELSE markedVirtual(highlightFound(h, searchPos + 1), next))
    ELSE markedVirtual(h, next)

RECURSIVE elseForwards(_, _, _, _, _)
\* case ELSE_BRANCH, the loop at the start of the context, searching forwards
elseForwards(h, next, searchPos, foundThen, unclosedParens) ==
    IF ~inTokens(searchPos) THEN h
    ELSE IF foundThen
    THEN (IF unclosedParens + nesting(searchPos, "FORWARDS") = 0
          THEN afterThenBlock(h, next, searchPos)
          ELSE elseForwards(h, next, searchPos + 1, foundThen,
                            unclosedParens + nesting(searchPos, "FORWARDS")))
    ELSE elseForwards(h, next, searchPos + 1, isKeyword(searchPos, "then"),
                      unclosedParens)

\* case ELSE_BRANCH
elseStep(h, next, searchDirection, searchPos) ==
    IF stepAt(h, next).virtualStep
    THEN (IF searchDirection = "BACKWARDS" /\ stepAt(h, next).endOfContext
          THEN (IF inTokens(searchPos) THEN highlightFound(h, searchPos)
                                       ELSE [h EXCEPT !.ub = TRUE])
          ELSE h)
    ELSE IF stepAt(h, next).endOfContext
    THEN (IF searchDirection = "FORWARDS"
          THEN (IF ~inSteps(h, h.currentStep) THEN [h EXCEPT !.ub = TRUE]
                ELSE IF stepAt(h, h.currentStep).virtualStep THEN markedVirtual(h, next)
                ELSE h)
          ELSE h)
    ELSE IF searchDirection = "BACKWARDS"
    THEN replaceFound(h, findToken(searchPos, TRUE, "Keyword", TRUE, "else"))
    ELSE elseForwards(h, next, searchPos, FALSE, 0)

\* case OR_CONTEXT
orContextStep(h, searchPos) ==
    IF inTokens(searchPos) THEN highlightFound(h, searchPos)
    ELSE IF h.tokenStack = <<>> THEN [h EXCEPT !.ub = TRUE]
    ELSE replaceCurrentHighlight(h, [token |-> top(h.tokenStack).token,
                                     index |-> Len(programTokens)])

RECURSIVE orLeftForwards(_, _, _, _, _)
\* case OR_LEFT, the loop searching forwards
orLeftForwards(h, searchPos, foundOr, foundParens, unmatchedParens) ==
    IF ~inTokens(searchPos) THEN h
    ELSE IF ~foundOr
    THEN orLeftForwards(h, searchPos + 1, isKeyword(searchPos, "or"), foundParens,
                        unmatchedParens)
    ELSE IF unmatchedParens + nesting(searchPos, "FORWARDS") = 0
            /\ (foundParens \/ tokenAt(searchPos).lexeme = "OpenParen")
    THEN highlightFound(h, searchPos)
    ELSE IF unmatchedParens + nesting(searchPos, "FORWARDS") = 0
            /\ searchPos < Len(programTokens) - 1
    THEN highlightFound(h, searchPos + 1)
    ELSE orLeftForwards(h, searchPos + 1, foundOr,
                        foundParens \/ tokenAt(searchPos).lexeme = "OpenParen",
                        unmatchedParens + nesting(searchPos, "FORWARDS"))

\* case OR_LEFT
orLeftStep(h, next, searchDirection, searchPos) ==
    IF ~stepAt(h, next).endOfContext THEN h
    ELSE IF searchDirection = "FORWARDS"
    THEN orLeftForwards(h, searchPos, FALSE, FALSE, 0)
    ELSE keywordOutsideParens(h, searchPos, searchDirection, "or", 0)

\* case OR_RIGHT
orRightStep(h, next, searchDirection, searchPos) ==
    IF stepAt(h, next).endOfContext THEN h
    ELSE IF searchDirection = "BACKWARDS"
    THEN replaceFound(h, findToken(searchPos, TRUE, "Keyword", TRUE, "or"))
    ELSE keywordOutsideParens(h, searchPos, searchDirection, "or", 0)

RECURSIVE keywordAfterFirst(_, _, _, _)
\* the loops of case SKIP and case BREAK, FAIL, which stop before index 0
keywordAfterFirst(h, searchPos, searchDirection, text) ==
    IF ~(searchPos > 0 /\ searchPos < Len(programTokens)) THEN h
    ELSE IF isKeyword(searchPos, text) THEN highlightFound(h, searchPos)
    ELSE keywordAfterFirst(h, moved(searchPos, searchDirection), searchDirection, text)

\* case SKIP
skipStep(h, next, searchDirection, searchPos) ==
    IF stepAt(h, next).virtualStep THEN h
    ELSE IF searchDirection = "FORWARDS" /\ ~inSteps(h, h.currentStep)
    THEN [h EXCEPT !.ub = TRUE]
    ELSE IF searchDirection = "FORWARDS" /\ stepAt(h, h.currentStep).virtualStep
    THEN markedVirtual(h, next)
    ELSE keywordAfterFirst(h, searchPos, searchDirection, "skip")

\* update, the switch on nextStep->type
stepHighlight(h, next, searchDirection, searchPos) ==
    LET type == stepAt(h, next).type
    IN  CASE type = "RULE" -> ruleStep(h, next, searchDirection, searchPos)
          [] type = "RULE_SET" -> ruleSetStep(h, next, searchDirection, searchPos)
          [] type = "LOOP" -> loopStep(h, next, searchDirection, searchPos)
          [] type = "LOOP_ITERATION" -> loopIterationStep(h, next, searchDirection)
          [] type = "PROCEDURE" -> procedureStep(h, next, searchDirection, searchPos)
          [] type \in {"IF_CONTEXT", "TRY_CONTEXT"} ->
                 branchStep(h, next, searchDirection, searchPos)
          [] type = "BRANCH_CONDITION" ->
                 branchConditionStep(h, next, searchDirection, searchPos)
          [] type = "THEN_BRANCH" -> thenStep(h, next, searchDirection, searchPos)
          [] type = "ELSE_BRANCH" -> elseStep(h, next, searchDirection, searchPos)
          [] type = "OR_CONTEXT" -> orContextStep(h, searchPos)
          [] type = "OR_LEFT" -> orLeftStep(h, next, searchDirection, searchPos)
          [] type = "OR_RIGHT" -> orRightStep(h, next, searchDirection, searchPos)
          [] type = "SKIP" -> skipStep(h, next, searchDirection, searchPos)
          [] type = "BREAK" -> keywordAfterFirst(h, searchPos, searchDirection, "break")
          [] type = "FAIL" -> keywordAfterFirst(h, searchPos, searchDirection, "fail")
          [] OTHER -> h

\* update from the choice of searchPos on; next is the position of the step
\* nextStep points to, a position outside traceSteps for a null pointer
updateFrom(h, next, searchDirection) ==
    IF h.ub THEN h
    ELSE IF ~inSteps(h, next) THEN [noNextStep(h) EXCEPT !.currentStep = next]
    ELSE [stepHighlight(h, next, searchDirection, searchStart(h, searchDirection))
             EXCEPT !.currentStep = next]

\* TraceHighlighter::update(nextStep, searchDirection)
update(h, next, searchDirection) ==
    updateFrom(procedureDeclaration(h, searchDirection), next, searchDirection)

-----------------------------------------------------------------------------
(* The highlighter's arguments: the editor's tokens of a GP2 program and    *)
(* the steps TraceParser makes of the tracefile of a run of the program     *)

\* a step as TraceParser::parseStep fills it in
Step(type, contextName, endOfContext) ==
    [type |-> type, contextName |-> contextName, endOfContext |-> endOfContext,
     loopBoundary |-> FALSE, virtualStep |-> FALSE, graphChanges |-> <<>>]

\* the steps of a context element: its start, the steps inside, its end
ContextSteps(type, contextName, inner) ==
    <<Step(type, contextName, FALSE)>> \o inner \o <<Step(type, contextName, TRUE)>>

\* the steps of <rule name=..> <match/> [<apply/>] </rule>
RuleSteps(name, success) ==
    ContextSteps("RULE", name,
                 <<Step("RULE_MATCH", "", FALSE)>>
                 \o (IF success THEN <<Step("RULE_APPLICATION", "", FALSE)>> ELSE <<>>))

Identifier(text) == Token("Identifier", text)
Keyword(text) == Token("Keyword", text)
MainDeclaration == <<Token("Declaration", "Main"), Token("DeclarationOperator", "=")>>

\* Main = P   P = r6!   run on a graph that r6 matches once
CallOfLoop ==
    [tokens |-> MainDeclaration
                \o <<Token("Declaration", "P"),
                     Token("Declaration", "P"), Token("DeclarationOperator", "="),
                     Identifier("r6"), Token("Repeat", "!")>>,
     steps  |-> ContextSteps("PROCEDURE", "P",
                  ContextSteps("LOOP", "",
                    ContextSteps("LOOP_ITERATION", "", RuleSteps("Main_r6", TRUE))
                    \o ContextSteps("LOOP_ITERATION", "", RuleSteps("Main_r6", FALSE))))]

\* P = r1   Main = P   the program ends with the call of P
CallAtEnd ==
    [tokens |-> <<Token("Declaration", "P"), Token("DeclarationOperator", "="),
                  Identifier("r1"),
                  Token("Declaration", "Main"), Token("DeclarationOperator", "="),
                  Token("Declaration", "P")>>,
     steps  |-> ContextSteps("PROCEDURE", "P", RuleSteps("Main_r1", TRUE))]

\* the programs the highlighter is run on, each with the steps of one run
HighlightedPrograms ==
    { CallOfLoop, CallAtEnd,
      \* Main = r1; r2
      [tokens |-> MainDeclaration
                  \o <<Identifier("r1"), Token("Separator", ";"), Identifier("r2")>>,
       steps  |-> RuleSteps("Main_r1", TRUE) \o RuleSteps("Main_r2", TRUE)],
      \* Main = {r5, r7}; skip
      [tokens |-> MainDeclaration
                  \o <<Token("OpenBrace", "{"), Identifier("r5"), Token("Separator", ","),
                       Identifier("r7"), Token("CloseBrace", "}"),
                       Token("Separator", ";"), Keyword("skip")>>,
       steps  |-> ContextSteps("RULE_SET", "",
                      RuleSteps("Main_r5", FALSE) \o RuleSteps("Main_r7", TRUE))
                  \o <<Step("SKIP", "", FALSE)>>],
      \* Main = if ra then rb else (r1; r2), the condition holds
      [tokens |-> MainDeclaration
                  \o <<Keyword("if"), Identifier("ra"), Keyword("then"), Identifier("rb"),
                       Keyword("else"), Token("OpenParen", "("), Identifier("r1"),
                       Token("Separator", ";"), Identifier("r2"),
                       Token("CloseParen", ")")>>,
       steps  |-> ContextSteps("IF_CONTEXT", "",
                      ContextSteps("BRANCH_CONDITION", "", RuleSteps("Main_ra", TRUE))
                      \o ContextSteps("THEN_BRANCH", "", RuleSteps("Main_rb", TRUE)))],
      \* Main = try ra then rb else r1; r2, the condition fails
      [tokens |-> MainDeclaration
                  \o <<Keyword("try"), Identifier("ra"), Keyword("then"), Identifier("rb"),
                       Keyword("else"), Identifier("r1"), Token("Separator", ";"),
                       Identifier("r2")>>,
       steps  |-> ContextSteps("TRY_CONTEXT", "",
                      ContextSteps("BRANCH_CONDITION", "", RuleSteps("Main_ra", FALSE))
                      \o ContextSteps("ELSE_BRANCH", "", RuleSteps("Main_r1", TRUE)))
                  \o RuleSteps("Main_r2", TRUE)],
      \* Main = if ra then rb; r2, the condition fails and the compiler's
      \* else branch, a skip, is run
      [tokens |-> MainDeclaration
                  \o <<Keyword("if"), Identifier("ra"), Keyword("then"), Identifier("rb"),
                       Token("Separator", ";"), Identifier("r2")>>,
       steps  |-> ContextSteps("IF_CONTEXT", "",
                      ContextSteps("BRANCH_CONDITION", "", RuleSteps("Main_ra", FALSE))
                      \o ContextSteps("ELSE_BRANCH", "", <<Step("SKIP", "", FALSE)>>))
                  \o RuleSteps("Main_r2", TRUE)],
      \* Main = (ra or (rb; r1)); r2, the left branch is run
      [tokens |-> MainDeclaration
                  \o <<Token("OpenParen", "("), Identifier("ra"), Keyword("or"),
                       Token("OpenParen", "("), Identifier("rb"), Token("Separator", ";"),
                       Identifier("r1"), Token("CloseParen", ")"),
                       Token("CloseParen", ")"), Token("Separator", ";"),
                       Identifier("r2")>>,
       steps  |-> ContextSteps("OR_CONTEXT", "",
                      ContextSteps("OR_LEFT", "", RuleSteps("Main_ra", TRUE)))
                  \o RuleSteps("Main_r2", TRUE)],
      \* Main = ra or rb, the right branch is run
      [tokens |-> MainDeclaration \o <<Identifier("ra"), Keyword("or"), Identifier("rb")>>,
       steps  |-> ContextSteps("OR_CONTEXT", "",
                      ContextSteps("OR_RIGHT", "", RuleSteps("Main_rb", TRUE)))],
      \* Main = (r6; break)!; fail
      [tokens |-> MainDeclaration
                  \o <<Token("OpenParen", "("), Identifier("r6"), Token("Separator", ";"),
                       Keyword("break"), Token("CloseParen", ")"), Token("Repeat", "!"),
                       Token("Separator", ";"), Keyword("fail")>>,
       steps  |-> ContextSteps("LOOP", "",
                      ContextSteps("LOOP_ITERATION", "",
                          RuleSteps("Main_r6", TRUE) \o <<Step("BREAK", "", FALSE)>>))
                  \o <<Step("FAIL", "", FALSE)>>] }

\* the steps with loopBoundary set on the end of the last iteration of every
\* loop: the iteration end that the end of the loop follows
withLoopBoundaries(steps) ==
    [i \in DOMAIN steps |->
        IF /\ steps[i].type = "LOOP_ITERATION" /\ steps[i].endOfContext
           /\ i < Len(steps)
           /\ steps[i + 1].type = "LOOP" /\ steps[i + 1].endOfContext
        THEN [steps[i] EXCEPT !.loopBoundary = TRUE]
        ELSE steps[i]]

-----------------------------------------------------------------------------
(* The highlighter as a state machine *)

\* the highlighter's fields as one record
CurHighlighter ==
    [emphasise |-> emphasise, tokenStack |-> tokenStack, traceSteps |-> traceSteps,
     currentStep |-> currentStep, ub |-> FALSE]

\* TraceHighlighter::TraceHighlighter(programTokens), and the steps of the
\* trace; stale is the emphasis a previous run left on the tokens
TraceHighlighter(steps, stale) ==
    clearHighlights([emphasise |-> stale, tokenStack |-> <<>>, traceSteps |-> steps,
                     currentStep |-> -1, ub |-> FALSE])

\* the variables after a call of update left the highlighter as h
Presented(h, searchDirection) ==
    /\ Len(h.tokenStack) <= MaxTokenStack
    /\ \A i \in DOMAIN h.tokenStack :
          h.tokenStack[i].index <= Len(programTokens) + MaxPastEnd
    /\ emphasise' = h.emphasise
    /\ tokenStack' = h.tokenStack
    /\ traceSteps' = h.traceSteps
    /\ currentStep' = h.currentStep
    /\ ub' = h.ub
    /\ aborted' \in (IF h.ub THEN BOOLEAN ELSE {FALSE})
    /\ lastOp' = searchDirection
    /\ roundTrip' = IF searchDirection = "FORWARDS" THEN roundTrip ELSE "left"
    /\ UNCHANGED <<programTokens, xml, rd, initialised, parseComplete, contextStack,
                   graph, inputGraph, ret, parser>>

InitHighlighter ==
    \E p \in HighlightedPrograms, marked \in BOOLEAN, staleAt \in {0, 3} :
        /\ programTokens = p.tokens
        /\ \E h \in {TraceHighlighter(IF marked THEN withLoopBoundaries(p.steps)
                                                 ELSE p.steps,
                                      [i \in 1..Len(p.tokens) |-> i = staleAt])} :
              /\ emphasise = h.emphasise
              /\ tokenStack = h.tokenStack
              /\ traceSteps = h.traceSteps
              /\ currentStep = h.currentStep
        /\ xml = <<>> /\ rd = ReaderAtRoot
        /\ initialised = TRUE /\ parseComplete = TRUE
        /\ contextStack = <<>>
        /\ graph = NoGraph /\ inputGraph = NoGraph
        /\ ub = FALSE /\ aborted = FALSE /\ ret = TRUE
        /\ lastOp = "TraceHighlighter" /\ roundTrip = "constructed"
        /\ parser = NoParser

\* the runner moved forward: the highlighter is given the step after the one
\* it was given last, and no step after the last step of the trace
UpdateForwards ==
    /\ ~ub /\ ~aborted
    /\ currentStep < Len(traceSteps)
    /\ Presented(update(CurHighlighter, currentStep + 1, "FORWARDS"), "FORWARDS")

\* the runner moved backward: the highlighter is given the step before the
\* one it was given last
UpdateBackwards ==
    /\ ~ub /\ ~aborted
    /\ currentStep > 0
    /\ Presented(update(CurHighlighter, currentStep - 1, "BACKWARDS"), "BACKWARDS")

NextHighlighter == UpdateForwards \/ UpdateBackwards

SpecHighlighter == InitHighlighter /\ [][NextHighlighter]_vars

\* update was only ever called forwards on the tokens and steps of CallOfLoop,
\* and was last given a step of the trace
ForwardThroughCall ==
    /\ programTokens = CallOfLoop.tokens
    /\ roundTrip = "constructed"
    /\ inSteps(CurHighlighter, currentStep)

-----------------------------------------------------------------------------
(* What the parser made of the tracefile *)

\* the positions of the start elements named tag in the tracefile
startsOf(tag) ==
    LET isStart(i) == xml[i].tt = "StartElement" /\ xml[i].name = tag
    IN  SelectSeq([i \in 1..Len(xml) |-> i], isStart)

\* the positions in the step buffer of the steps of these types that are
\* not ends of a context
stepsOf(types) ==
    LET isStep(i) == traceSteps[i].type \in types /\ ~traceSteps[i].endOfContext
    IN  SelectSeq([i \in 1..Len(traceSteps) |-> i], isStep)

RECURSIVE innerTags(_, _)
\* the names of the start elements from position i of the tracefile up to
\* the end element named tag
innerTags(i, tag) ==
    IF i > Len(xml) \/ xml[i].tt = "Invalid"
       \/ (xml[i].tt = "EndElement" /\ xml[i].name = tag)
    THEN <<>>
    ELSE (IF xml[i].tt = "StartElement" THEN <<xml[i].name>> ELSE <<>>)
         \o innerTags(i + 1, tag)

\* the kind of GraphChange each mutation tag stands for
mutationKind(tag) ==
    CASE tag = "createEdge"  -> "ADD_EDGE"
      [] tag = "createNode"  -> "ADD_NODE"
      [] tag = "deleteEdge"  -> "DELETE_EDGE"
      [] tag = "deleteNode"  -> "DELETE_NODE"
      [] tag = "relabelEdge" -> "RELABEL_EDGE"
      [] tag = "relabelNode" -> "RELABEL_NODE"
      [] tag = "remarkEdge"  -> "REMARK_EDGE"
      [] tag = "remarkNode"  -> "REMARK_NODE"
      [] tag = "setRoot"     -> "SET_ROOT"
      [] tag = "removeRoot"  -> "REMOVE_ROOT"
      [] OTHER -> "INVALID"

\* a rule application is behind the cursor: it was stepped over forwards
ApplicationBehind ==
    \E i \in 1..Len(traceSteps) : i <= currentStep /\ traceSteps[i].type = "RULE_APPLICATION"

\* C21 (mutation tags): the k-th rule application step of the buffer holds
\* one GraphChange for every start tag inside the k-th <apply> of the
\* tracefile, of the kind the tag stands for, in the same order; and once
\* the run of r4, whose <apply> holds <removeRoot id="n1"/>, has stepped
\* forward over that step, node n1 is not a root.
MutationTagsDecoded ==
    Usable =>
      /\ \A k \in 1..Len(stepsOf({"RULE_APPLICATION"})) :
            LET tags    == innerTags(startsOf("apply")[k] + 1, "apply")
                changes == traceSteps[stepsOf({"RULE_APPLICATION"})[k]].graphChanges
            IN  /\ Len(changes) = Len(tags)
                /\ \A j \in 1..Len(tags) : changes[j].type = mutationKind(tags[j])
      /\ (Runs("unroot") /\ ApplicationBehind) => ~graph.nodes["n1"].isRoot

MatchKinds == {"RULE_MATCH", "RULE_MATCH_FAILED"}

\* C23 (kind of a match step): the k-th match step of the buffer has kind
\* RULE_MATCH if the success attribute of the k-th <match> of the tracefile
\* is "true", and RULE_MATCH_FAILED otherwise.
MatchKindFromSuccess ==
    Usable =>
      \A k \in 1..Len(stepsOf(MatchKinds)) :
          traceSteps[stepsOf(MatchKinds)[k]].type
              = (IF xml[startsOf("match")[k]].a.success = "true"
                 THEN "RULE_MATCH" ELSE "RULE_MATCH_FAILED")

\* the <match> elements the reader has read to their end tags
matchesRead ==
    { i \in 1..rd.pos : xml[i].tt = "EndElement" /\ xml[i].name = "match" }

\* C24 (a match step is a leaf): the buffer holds exactly one step of a
\* match kind for every <match>...</match> element read, and no step of a
\* match kind has endOfContext set.
MatchIsLeaf ==
    Usable =>
      /\ Cardinality({ i \in 1..Len(traceSteps) : traceSteps[i].type \in MatchKinds })
            = Cardinality(matchesRead)
      /\ \A i \in 1..Len(traceSteps) :
            traceSteps[i].type \in MatchKinds => ~traceSteps[i].endOfContext

\* the cursor is at a step of a match kind
MatchAhead == inSteps(Cur, currentStep) /\ stepAt(Cur, currentStep).type \in MatchKinds

\* the step just before the cursor is of a match kind
MatchBehind ==
    inSteps(Cur, currentStep - 1) /\ stepAt(Cur, currentStep - 1).type \in MatchKinds

\* C30 (match steps change nothing): stepForward() from a step of a match
\* kind and stepBackward() onto one leave the graph and the context stack
\* as they were.
MatchStepChangesNothing ==
    [][/\ (Usable /\ MatchAhead /\ lastOp' = "stepForward" /\ ~ub')
            => (graph' = graph /\ contextStack' = contextStack)
       /\ (Usable /\ MatchBehind /\ lastOp' = "stepBackward" /\ ~ub')
            => (graph' = graph /\ contextStack' = contextStack)]_vars

\* the start tags inside the <apply> that the rule application step at
\* position i of the buffer was parsed from
tagsOfApplication(i) ==
    LET k == CHOOSE k \in 1..Len(stepsOf({"RULE_APPLICATION"})) :
                 stepsOf({"RULE_APPLICATION"})[k] = i
    IN  innerTags(startsOf("apply")[k] + 1, "apply")

\* the kinds of the tags that changeTypeFromXML knows, in their order
validKinds(tags) ==
    LET isValid(tag) == changeTypeFromXML(tag) /= "INVALID"
        valid == SelectSeq(tags, isValid)
    IN  [j \in 1..Len(valid) |-> changeTypeFromXML(valid[j])]

kinds(changes) == [j \in 1..Len(changes) |-> changes[j].type]

\* the rule application at position i of the buffer was parsed from an
\* <apply> that holds a record of a kind changeTypeFromXML does not know
InvalidRecordAt(i) ==
    /\ i \in 1..Len(traceSteps)
    /\ traceSteps[i].type = "RULE_APPLICATION"
    /\ \E j \in 1..Len(tagsOfApplication(i)) :
          changeTypeFromXML(tagsOfApplication(i)[j]) = "INVALID"

\* C29 (an invalid change is skipped): on a whole tracefile, stepForward()
\* over a rule application whose <apply> holds a record of an unknown kind
\* applies the other changes of the <apply> in their order, returns true and
\* moves the cursor on by one; stepBackward() over it reverts those changes,
\* returns true and moves the cursor back by one.
InvalidChangeSkipped ==
    [][/\ (Usable /\ WholeFile /\ InvalidRecordAt(currentStep + 1) /\ lastOp' = "stepForward")
            => /\ ~ub' /\ ret' /\ currentStep' = currentStep + 1
               /\ kinds(ChangesAhead) = validKinds(tagsOfApplication(currentStep + 1))
               /\ graph' = AppliedInOrder(graph, ChangesAhead, Len(ChangesAhead))
       /\ (Usable /\ WholeFile /\ InvalidRecordAt(currentStep) /\ lastOp' = "stepBackward")
            => /\ ~ub' /\ ret' /\ currentStep' = currentStep - 1
               /\ graph' = RevertedInReverse(graph, ChangesBehind, 1)]_vars

\* the run of r4, whose <apply> holds <removeRoot/> (a kind that
\* changeTypeFromXML does not know) and a relabelNode of n1, stepped forward
\* over the rule application: n1 has its new label
InvalidChangeSkippedWitness ==
    /\ Usable /\ WholeFile /\ Runs("unroot") /\ lastOp = "stepForward" /\ ret
    /\ InvalidRecordAt(currentStep)
    /\ Len(ChangesBehind) = 1
    /\ graph.nodes["n1"].label /= inputGraph.nodes["n1"].label

-----------------------------------------------------------------------------
(* The two parsers on the same tracefile: TraceRunner::parseStep() and      *)
(* TraceParser::parseStep(), one call at a time                             *)

\* <tag> inner </tag>
ContextTrace(tag, inner) == <<StartElement(tag, NoAttrs)>> \o inner \o <<EndElement(tag)>>

\* <procedure name=..> inner </procedure>
ProcedureTrace(name, inner) ==
    <<StartElement("procedure", Attrs([name |-> name]))>> \o inner
    \o <<EndElement("procedure")>>

\* what traced runs wrote after <trace>: a procedure P that calls P and then
\* Q; an or that took its left branch; an or that took its right branch; a
\* rule, a <comment/> element and a loop left by break, then fail; a file
\* that starts with a <comment/> element; an if, a rule set and a try with
\* an else branch
ParsedTraces ==
    { ProcedureTrace("P", ProcedureTrace("P", Commands.create.trace)
                          \o ProcedureTrace("Q", RuleTrace("Main_r5", FALSE, <<>>, <<>>))
                          \o Empty("skip", NoAttrs)),
      ContextTrace("or", ContextTrace("leftBranch", Commands.update.trace)),
      ContextTrace("or", ContextTrace("rightBranch", Commands.unroot.trace)),
      Commands.unroot.trace \o <<Characters>> \o Empty("comment", NoAttrs)
          \o ContextTrace("loop", ContextTrace("iteration",
                 RuleTrace("Main_r5", FALSE, <<>>, <<>>) \o Empty("break", NoAttrs)))
          \o Empty("fail", NoAttrs),
      Empty("comment", NoAttrs) \o Commands.skip.trace,
      BranchTrace("if") \o Commands.set.trace
          \o ContextTrace("try", ContextTrace("condition",
                                     RuleTrace("Main_ra", FALSE, <<>>, <<>>))
                                 \o ContextTrace("else", Empty("skip", NoAttrs))) }

\* the whole file of a run, and the files that stop after k tokens where the
\* writer was killed or, for the short runs, wrote text that is not
\* well-formed XML
ParsedFiles(body) ==
    { body \o <<EndElement("trace"), EndDocument>> }
    \cup { SubSeq(body, 1, k) \o <<Invalid(e)>> :
              k \in 0..Len(body),
              e \in {"PrematureEndOfDocumentError"}
                     \cup (IF Len(body) <= MaxShortTrace THEN {"NotWellFormedError"}
                                                          ELSE {}) }

\* the runner as its constructor leaves it, but for the highlighting (the
\* program is left out: no token enters parseStep), and a TraceParser
\* constructed on the same file
InitParser ==
    \E body \in ParsedTraces : \E file \in ParsedFiles(body) :
        /\ xml = file
        /\ programTokens = <<>> /\ emphasise = <<>>
        /\ graph = NoGraph /\ inputGraph = NoGraph
        /\ \E s \in {parseStep(removeHighlights(Members(NoGraph, <<>>)))} :
              /\ rd = s.rd
              /\ initialised = s.ret
              /\ parseComplete = s.parseComplete
              /\ traceSteps = s.traceSteps
              /\ currentStep = (IF s.ret THEN 0 ELSE -1)
              /\ ret = s.ret
        /\ tokenStack = <<>> /\ contextStack = <<>>
        /\ ub = FALSE /\ aborted = FALSE
        /\ lastOp = "TraceRunner" /\ roundTrip = "constructed"
        /\ parser = TraceParser("trace")

\* TraceRunner::parseStep() as stepForward() calls it, after a call that
\* returned true and while parsing is not complete
RunnerParseStep ==
    /\ initialised /\ ret /\ ~parseComplete
    /\ \E s \in {parseStep(Cur)} :
          /\ rd' = s.rd
          /\ parseComplete' = s.parseComplete
          /\ traceSteps' = s.traceSteps
          /\ ret' = s.ret
    /\ lastOp' = "parseStep"
    /\ UNCHANGED <<programTokens, emphasise, xml, initialised, currentStep, tokenStack,
                   contextStack, graph, inputGraph, ub, aborted, roundTrip, parser>>

\* the caller of TraceParser::parseStep(step): it passes a new TraceStep and
\* appends it to its buffer when the call returned true before the end of
\* the trace
appended(a) ==
    [a.p EXCEPT !.steps = IF a.p.ret /\ ~a.p.parseComplete THEN Append(@, a.step) ELSE @]

\* TraceParser::parseStep(step), after a call that returned true and while
\* parsing is not complete
ParserParseStep ==
    /\ parser.initialised /\ parser.ret /\ ~parser.parseComplete /\ ~parser.ub
    /\ parser' = appended(TraceParser_parseStep(parser, NewTraceStep))
    /\ lastOp' = "TraceParser::parseStep"
    /\ UNCHANGED <<programTokens, emphasise, xml, rd, initialised, parseComplete, traceSteps,
                   currentStep, tokenStack, contextStack, graph, inputGraph, ub, aborted,
                   ret, roundTrip>>

NextParser == RunnerParseStep \/ ParserParseStep

SpecParser == InitParser /\ [][NextParser]_vars

-----------------------------------------------------------------------------
(* Properties of the parsers *)

\* the tag dictionary: the step kind of each start tag
tagKind(tag) ==
    CASE tag = "rule"        -> "RULE"
      [] tag = "match"       -> "RULE_MATCH"
      [] tag = "apply"       -> "RULE_APPLICATION"
      [] tag = "ruleset"     -> "RULE_SET"
      [] tag = "loop"        -> "LOOP"
      [] tag = "iteration"   -> "LOOP_ITERATION"
      [] tag = "procedure"   -> "PROCEDURE"
      [] tag = "if"          -> "IF_CONTEXT"
      [] tag = "try"         -> "TRY_CONTEXT"
      [] tag = "condition"   -> "BRANCH_CONDITION"
      [] tag = "then"        -> "THEN_BRANCH"
      [] tag = "else"        -> "ELSE_BRANCH"
      [] tag = "or"          -> "OR_CONTEXT"
      [] tag = "leftBranch"  -> "OR_LEFT"
      [] tag = "rightBranch" -> "OR_RIGHT"
      [] tag = "skip"        -> "SKIP"
      [] tag = "break"       -> "BREAK"
      [] tag = "fail"        -> "FAIL"
      [] OTHER -> "UNKNOWN"

LeafKinds == {"SKIP", "BREAK", "FAIL"}

ContextKinds ==
    {"RULE", "RULE_SET", "LOOP", "LOOP_ITERATION", "PROCEDURE", "IF_CONTEXT", "TRY_CONTEXT",
     "BRANCH_CONDITION", "THEN_BRANCH", "ELSE_BRANCH", "OR_CONTEXT", "OR_LEFT", "OR_RIGHT"}

\* the positions among from+1..to of the tokens a step is made of: the
\* start elements, and the end elements of the context tags
stepTokens(from, to) ==
    { i \in (from + 1)..to :
        \/ xml[i].tt = "StartElement"
        \/ xml[i].tt = "EndElement" /\ tagKind(xml[i].name) \in ContextKinds }

\* the first of them
firstStepToken(from, to) ==
    CHOOSE i \in stepTokens(from, to) : \A j \in stepTokens(from, to) : i <= j

\* a call of parseStep that read the tokens from+1..to, not up to the point
\* where the file is cut off, returned ok and turned the buffer steps into
\* steps2: if the first step token it read has a tag of the dictionary, the
\* call returned true and appended a step of the tag's kind, an end step for
\* an end tag
Decoded(from, to, ok, steps, steps2) ==
    (stepTokens(from, to) /= {} /\ xml[to].tt /= "Invalid")
        => LET t    == xml[firstStepToken(from, to)]
               kind == tagKind(t.name)
           IN  kind /= "UNKNOWN"
                 => /\ ok
                    /\ Len(steps2) > Len(steps)
                    /\ steps2[Len(steps) + 1].endOfContext = (t.tt = "EndElement")
                    /\ IF kind = "RULE_MATCH"
                       THEN steps2[Len(steps) + 1].type \in MatchKinds
                       ELSE steps2[Len(steps) + 1].type = kind

\* C22 (tag dictionary): every call of parseStep, of either parser, turns
\* the start tag it meets into a step of the kind the dictionary gives, and
\* the end tag of a context into an end step of that kind; <leftBranch> and
\* <rightBranch> give OR_LEFT and OR_RIGHT steps and are not rejected.
TagDictionary ==
    [][/\ lastOp' = "parseStep"
            => Decoded(rd.pos, rd'.pos, ret', traceSteps, traceSteps')
       /\ lastOp' = "TraceParser::parseStep"
            => Decoded(parser.rd.pos, parser'.rd.pos, parser'.ret,
                       parser.steps, parser'.steps)]_vars

RECURSIVE scanContexts(_, _, _)
\* steps[i..] read with the positions of the open context starts in open:
\* FALSE when an end step does not close the innermost open context, else
\* the contexts left open at the end
scanContexts(steps, i, open) ==
    IF i > Len(steps) THEN [ok |-> TRUE, open |-> open]
    ELSE IF steps[i].type \notin ContextKinds THEN scanContexts(steps, i + 1, open)
    ELSE IF ~steps[i].endOfContext THEN scanContexts(steps, i + 1, Append(open, i))
    ELSE IF open = <<>> \/ steps[open[Len(open)]].type /= steps[i].type
    THEN [ok |-> FALSE, open |-> open]
    ELSE scanContexts(steps, i + 1, SubSeq(open, 1, Len(open) - 1))

\* every context start of steps has its end step, properly nested, and no
\* step is the end of a leaf or of an unknown element
WellNested(steps) ==
    /\ scanContexts(steps, 1, <<>>) = [ok |-> TRUE, open |-> <<>>]
    /\ \A i \in 1..Len(steps) :
          /\ steps[i].type /= "UNKNOWN"
          /\ steps[i].endOfContext => steps[i].type \notin LeafKinds

\* C25 (contexts are nested): the steps either parser made of a whole
\* tracefile hold, for every context start, exactly one end step of the same
\* kind, properly nested; skip, break, fail and </trace> leave no end step.
ContextsNested ==
    WholeFile =>
      /\ (parseComplete /\ ret) => WellNested(traceSteps)
      /\ parser.parseComplete => WellNested(parser.steps)

\* both parsers have read the whole trace of the procedure P that calls P
\* and Q: three procedure ends and the skip are in both buffers
ContextsNestedWitness ==
    /\ WholeFile /\ parseComplete /\ ret /\ parser.parseComplete
    /\ Cardinality({ i \in 1..Len(traceSteps) :
                       traceSteps[i].type = "PROCEDURE" /\ traceSteps[i].endOfContext }) = 3
    /\ Cardinality({ i \in 1..Len(parser.steps) :
                       parser.steps[i].type = "PROCEDURE" /\ parser.steps[i].endOfContext }) = 3
    /\ \E i \in 1..Len(traceSteps) : traceSteps[i].type = "SKIP"
    /\ \E i \in 1..Len(parser.steps) : parser.steps[i].type = "SKIP"

RECURSIVE namesRestored(_, _, _)
\* steps[i..] read with the positions of the open context starts in open:
\* every Rule or Procedure end step carries the name of the start it closes
namesRestored(steps, i, open) ==
    IF i > Len(steps) THEN TRUE
    ELSE IF steps[i].type \notin ContextKinds THEN namesRestored(steps, i + 1, open)
    ELSE IF ~steps[i].endOfContext THEN namesRestored(steps, i + 1, Append(open, i))
    ELSE IF open = <<>> \/ steps[open[Len(open)]].type /= steps[i].type THEN FALSE
    ELSE IF steps[i].type \in {"RULE", "PROCEDURE"}
            /\ steps[i].contextName /= steps[open[Len(open)]].contextName
    THEN FALSE
    ELSE namesRestored(steps, i + 1, SubSeq(open, 1, Len(open) - 1))

\* C26 (names at context ends): in the buffer of either parser every Rule
\* or Procedure end step has the contextName of the start step it closes,
\* whatever procedures were opened and closed in between.
EndNamesRestored ==
    /\ namesRestored(traceSteps, 1, <<>>)
    /\ namesRestored(parser.steps, 1, <<>>)

\* both parsers have read the trace of the procedure P that calls P and Q to
\* its last step, the end of the outer P, whose name is P after the end of Q
EndNamesRestoredWitness ==
    /\ WholeFile
    /\ \E i \in 2..Len(traceSteps) :
          /\ i = Len(traceSteps)
          /\ traceSteps[i] = [NewStep EXCEPT !.type = "PROCEDURE", !.contextName = "P",
                                             !.endOfContext = TRUE]
          /\ scanContexts(traceSteps, 1, <<>>).open = <<>>
          /\ \E j \in 1..i : traceSteps[j].type = "PROCEDURE" /\ traceSteps[j].contextName = "Q"
                                 /\ traceSteps[j].endOfContext
          /\ Cardinality({ j \in 1..i : traceSteps[j].type = "PROCEDURE"
                                           /\ traceSteps[j].contextName = "P" }) = 4
    /\ \E i \in 2..Len(parser.steps) :
          /\ i = Len(parser.steps)
          /\ parser.steps[i] = [NewTraceStep EXCEPT !.type = "PROCEDURE", !.contextName = "P",
                                                    !.endOfContext = TRUE]
          /\ scanContexts(parser.steps, 1, <<>>).open = <<>>
          /\ Cardinality({ j \in 1..i : parser.steps[j].type = "PROCEDURE"
                                           /\ parser.steps[j].contextName = "P" }) = 4

\* a call of parseStep that read the tokens from+1..to, returned ok and
\* turned the buffer steps into steps2: if the first step token it read is a
\* start tag that is not in the dictionary, the call stopped there, returned
\* false and appended nothing; and it did not stop at a token that is
\* neither a start nor an end element
FailedFast(from, to, ok, steps, steps2) ==
    /\ (stepTokens(from, to) /= {}
        /\ xml[firstStepToken(from, to)].tt = "StartElement"
        /\ tagKind(xml[firstStepToken(from, to)].name) = "UNKNOWN")
          => (~ok /\ steps2 = steps /\ to = firstStepToken(from, to))
    /\ to > from => xml[to].tt /= "Characters"

\* C27 (fail fast): a call of parseStep, of either parser, that meets a
\* start tag which is not in the tag dictionary returns false at that tag
\* without a step; text between elements is passed over.
FailFast ==
    [][/\ lastOp' = "parseStep"
            => FailedFast(rd.pos, rd'.pos, ret', traceSteps, traceSteps')
       /\ lastOp' = "TraceParser::parseStep"
            => FailedFast(parser.rd.pos, parser'.rd.pos, parser'.ret,
                          parser.steps, parser'.steps)]_vars

\* the change list is filled in match and rule application steps only, and
\* the steps with a name are the Rule and Procedure steps
FieldsByKind(steps) ==
    \A i \in 1..Len(steps) :
        /\ steps[i].graphChanges /= <<>>
              => steps[i].type \in MatchKinds \cup {"RULE_APPLICATION"}
        /\ steps[i].contextName /= "" <=> steps[i].type \in {"RULE", "PROCEDURE"}

-----------------------------------------------------------------------------
(* The runner's cursor and context stack *)

\* C35 (cursor in bounds): while the runner is called as its availability
\* predicates allow, 0 <= _currentStep <= size of _traceSteps, and when
\* isForwardStepAvailable() is true the step at the cursor is in the buffer,
\* also after a stepForward() that returned false.
CursorInBounds ==
    Usable =>
      /\ 0 <= currentStep /\ currentStep <= Len(traceSteps)
      /\ forwardAvailable => currentStep < Len(traceSteps)

\* C39 (a failed step changes nothing): a stepForward() that returns false
\* leaves the cursor, the graph, the context stack and the token stack as
\* they were before the call.
FailedStepChangesNothing ==
    [][(Usable /\ lastOp' = "stepForward" /\ ~ub' /\ ~ret')
          => /\ currentStep' = currentStep
             /\ graph' = graph
             /\ contextStack' = contextStack
             /\ tokenStack' = tokenStack]_vars

\* the kinds of the context starts among the first n steps of the buffer
\* whose end step is not among them, outermost first
openContexts(n) ==
    LET open == scanContexts(SubSeq(traceSteps, 1, n), 1, <<>>).open
    IN  [j \in 1..Len(open) |-> traceSteps[open[j]].type]

\* C38 (context stack): the context stack, bottom to top, holds the kinds
\* of the contexts that the steps before the cursor opened and did not
\* close.
ContextStackIsOpenContexts ==
    (Usable /\ currentStep <= Len(traceSteps)) => contextStack = openContexts(currentStep)

RECURSIVE steppedForward(_, _)
\* the runner s after k calls of stepForward()
steppedForward(s, k) == IF k = 0 THEN s ELSE steppedForward(stepForward(s), k - 1)

\* the runner that the constructor and then k calls of stepForward() make of
\* the tracefile
forwardOnly(k) ==
    steppedForward(TraceRunner("trace", inputGraph, [i \in 1..Len(programTokens) |-> FALSE]), k)

\* C37 (path independence): at cursor k the graph and the context stack are
\* those of the run that reached k by k calls of stepForward() alone,
\* whatever calls of stepForward(), stepBackward(), goToEnd() and
\* goToStart() led there.
PathIndependence ==
    (Usable /\ currentStep >= 0)
        => /\ graph = forwardOnly(currentStep).graph
           /\ contextStack = forwardOnly(currentStep).contextStack

-----------------------------------------------------------------------------
(* The names the two parsers give to the ends of rules and procedures *)

\* the contextName of the Rule and Procedure end steps of a buffer, in order
endNames(steps) ==
    LET ends == SelectSeq(steps, LAMBDA st : st.type \in {"RULE", "PROCEDURE"}
                                              /\ st.endOfContext)
    IN  [k \in 1..Len(ends) |-> <<ends[k].type, ends[k].contextName>>]

-----------------------------------------------------------------------------
(* What a call of update reads: the tokens and the token stack *)

\* update can be called with this direction in the current state
callable(searchDirection) ==
    /\ ~ub /\ ~aborted
    /\ IF searchDirection = "FORWARDS" THEN currentStep < Len(traceSteps)
                                       ELSE currentStep > 0

\* the step update is given when called with this direction
given(searchDirection) ==
    IF searchDirection = "FORWARDS" THEN currentStep + 1 ELSE currentStep - 1

\* the highlighter when update has dealt with the procedure of _currentStep
declared(searchDirection) == procedureDeclaration(CurHighlighter, searchDirection)

\* update reads _programTokens[searchPos] without a test of searchPos: at the
\* start of a loop forwards, and at the end of a virtual else backwards
unguardedRead(h, next, searchDirection) ==
    /\ inSteps(h, next)
    /\ \/ /\ stepAt(h, next).type = "LOOP"
          /\ searchDirection = "FORWARDS" /\ ~stepAt(h, next).endOfContext
       \/ /\ stepAt(h, next).type = "ELSE_BRANCH" /\ stepAt(h, next).virtualStep
          /\ searchDirection = "BACKWARDS" /\ stepAt(h, next).endOfContext

\* C31 (searches stay in the token sequence): whatever call of update comes
\* next, in either direction, the search for the procedure's declaration
\* reads no token after the last one, and a read of the token at the
\* search position (start of a loop, end of a virtual else) is at an index
\* from 0 to len(tokens) - 1.
SearchesStayInBounds ==
    \A d \in {"FORWARDS", "BACKWARDS"} :
        callable(d) =>
          /\ ~declared(d).ub
          /\ unguardedRead(declared(d), given(d), d)
                 => inTokens(searchStart(declared(d), d))

\* update reads the top of _tokenStack, or pops it, without a test for an
\* empty stack: when no step is given, at a loop iteration, and at the
\* procedure step that returns to the call site
readsTokenStack(h, next, searchDirection) ==
    \/ ~inSteps(h, next)
    \/ stepAt(h, next).type = "LOOP_ITERATION"
    \/ /\ stepAt(h, next).type = "PROCEDURE"
       /\ (searchDirection = "FORWARDS") = stepAt(h, next).endOfContext

\* C36 (no pop or peek of an empty token stack): whatever call of update
\* comes next, in either direction, the token stack is not empty where
\* update pops it or reads its top (end of the trace, LoopIteration steps,
\* the Procedure step that pops the declaration).
TokenStackReadNonEmpty ==
    \A d \in {"FORWARDS", "BACKWARDS"} :
        (callable(d) /\ ~declared(d).ub /\ readsTokenStack(declared(d), given(d), d))
            => declared(d).tokenStack /= <<>>

-----------------------------------------------------------------------------
(* The steps update passes over *)

\* the steps that are not visible in the source text: matches and
\* applications, and the end of a rule forwards, its start backwards
passedOver(step, searchDirection) ==
    \/ step.type \in {"RULE_MATCH", "RULE_MATCH_FAILED", "RULE_APPLICATION"}
    \/ step.type = "RULE" /\ (searchDirection = "FORWARDS") = step.endOfContext

\* the step given last is not a Procedure step (or none was given)
afterProcedureStep ==
    inSteps(CurHighlighter, currentStep)
        /\ stepAt(CurHighlighter, currentStep).type = "PROCEDURE"

-----------------------------------------------------------------------------
(* Loop iterations and the end of the trace *)

RECURSIVE presented(_, _, _, _)
\* the highlighter after update was given the steps from next to last, one
\* call each, in the direction of the search
presented(h, next, last, searchDirection) ==
    IF next = last THEN update(h, next, searchDirection)
    ELSE presented(update(h, next, searchDirection),
                   IF searchDirection = "FORWARDS" THEN next + 1 ELSE next - 1,
                   last, searchDirection)

RECURSIVE iterationEnd(_, _)
\* the position of the end step of the iteration that is open at position i,
\* with nested iterations counted; Len(traceSteps) when there is none
iterationEnd(i, nested) ==
    IF i >= Len(traceSteps) THEN Len(traceSteps)
    ELSE IF traceSteps[i + 1].type /= "LOOP_ITERATION" THEN iterationEnd(i + 1, nested)
    ELSE IF ~traceSteps[i + 1].endOfContext THEN iterationEnd(i + 1, nested + 1)
    ELSE IF nested > 0 THEN iterationEnd(i + 1, nested - 1)
    ELSE i

\* the iterations of the trace: the positions of a start step and its end step
Iterations ==
    { <<k, iterationEnd(k + 1, 0)>> : k \in { i \in 0..(Len(traceSteps) - 1) :
            /\ traceSteps[i + 1].type = "LOOP_ITERATION" /\ ~traceSteps[i + 1].endOfContext
            /\ iterationEnd(i + 1, 0) < Len(traceSteps) } }

\* one iteration presented forwards from its start step k to its end step e
iterationForwards(k, e) ==
    LET started == update(CurHighlighter, k, "FORWARDS")
        ended   == presented(CurHighlighter, k, e, "FORWARDS")
    IN  /\ ~started.ub /\ ~ended.ub
        /\ started.tokenStack = Append(tokenStack, top(tokenStack))
        /\ Len(ended.tokenStack) = Len(tokenStack)
        /\ ~traceSteps[e + 1].loopBoundary => ended.tokenStack = tokenStack

\* one iteration presented backwards from its end step e to its start step k
iterationBackwards(k, e) ==
    LET started == update(CurHighlighter, e, "BACKWARDS")
        ended   == presented(CurHighlighter, e, k, "BACKWARDS")
    IN  /\ ~started.ub /\ ~ended.ub
        /\ started.tokenStack = Append(tokenStack, top(tokenStack))
        /\ ended.tokenStack = tokenStack

\* TraceHighlighter::update keeps the frames of an iteration in balance: with
\* a frame on the token stack, the call that enters an iteration (its start
\* step forwards, its end step backwards) pushes a copy of the top frame,
\* and when update has been given every step of the iteration up to its
\* other end the stack has the depth it had before; it is the same stack,
\* with the frame that was copied on top, unless the iteration was left
\* forwards at the loop boundary.
IterationsBalance ==
    \A it \in Iterations :
        /\ (callable("FORWARDS") /\ currentStep + 1 = it[1] /\ tokenStack /= <<>>)
               => iterationForwards(it[1], it[2])
        /\ (callable("BACKWARDS") /\ currentStep - 1 = it[2] /\ tokenStack /= <<>>
              /\ ~afterProcedureStep)
               => iterationBackwards(it[1], it[2])

\* the cursor has just moved forwards to the start step of a loop iteration
enteredIteration ==
    /\ lastOp' \in {"FORWARDS", "stepForward"} /\ ~ub' /\ ret'
    /\ currentStep' = currentStep + 1 /\ currentStep' < Len(traceSteps')
    /\ traceSteps'[currentStep' + 1].type = "LOOP_ITERATION"
    /\ ~traceSteps'[currentStep' + 1].endOfContext

\* C33 (LoopIteration frames balance): when the cursor moves forwards to the
\* start step of an iteration with a frame on the token stack, a copy of
\* the top frame is pushed, the frame that the end of the iteration pops
\* to leave the loop-start token on top at the depth before the iteration.
IterationStartPushesCopy ==
    [][(enteredIteration /\ tokenStack /= <<>>)
          => tokenStack' = Append(tokenStack, top(tokenStack))]_vars

\* the cursor has just moved forwards past the last step of the trace
reachedEnd ==
    /\ lastOp' \in {"FORWARDS", "stepForward"} /\ ~ub' /\ ret' /\ parseComplete'
    /\ currentStep' = currentStep + 1 /\ currentStep' = Len(traceSteps')

\* C34 (end of the trace): when the cursor moves forwards past the last step
\* with a frame on the token stack, no token is emphasised afterwards and
\* the top frame has given way to a frame with the same token and the index
\* one higher, the frames below it unchanged, so that a search backwards
\* starts at the index of the previous top.
EndOfTraceSentinel ==
    [][(reachedEnd /\ tokenStack /= <<>>)
          => /\ \A i \in DOMAIN emphasise' : ~emphasise'[i]
             /\ tokenStack' = Append(pop(tokenStack),
                                     [token |-> top(tokenStack).token,
                                      index |-> top(tokenStack).index + 1])
             /\ searchStart([tokenStack |-> tokenStack'], "BACKWARDS")
                    = top(tokenStack).index]_vars
====
